---- MODULE Spec2Model ----
(***************************************************************************)
(* Model of src/main.py: the WordPress publishing adapter (class           *)
(* AdvancedPublisher), the content agent (class CompleteAIContentAgent)    *)
(* and the handlers of main() that use them.                               *)
(*                                                                         *)
(* A Python dict is a TLA+ function whose DOMAIN is the set of its keys;   *)
(* the empty dict is the function with the empty domain.  Python's None,   *)
(* True and False are the strings "None", "True" and "False".  A Python    *)
(* string built by an f-string is the sequence of its parts (the literal   *)
(* pieces and the formatted values, numbers formatted with ToString); a    *)
(* URL, which the code builds by plain concatenation, is one string.       *)
(*                                                                         *)
(* Under Spec every step is one call of a public method of the publisher,  *)
(* made in any order.  Under SessionSpec every step is one run of a        *)
(* handler of main() (test button, publish button, configuration upload),  *)
(* which makes several calls and writes st.session_state.  Under AgentSpec *)
(* every step is one call of a method of the agent, and under WizardSpec   *)
(* one run of the script with the sidebar key and the creation wizard; the *)
(* agent is kept in session_state as the script keeps it.  The variable    *)
(* calls holds the record of the calls made in the last step: the          *)
(* configuration before and after, the HTTP requests sent, the responses   *)
(* consumed, the value returned or the exception raised, and the notices   *)
(* shown through st.warning / st.error inside the call.                    *)
(***************************************************************************)
EXTENDS Integers, Sequences, FiniteSets, TLC

VARIABLES wordpress_config, session_state, calls, detectedQP, shown

vars == <<wordpress_config, session_state, calls, detectedQP, shown>>

(***************************************************************************)
(* Bounds of the model.                                                    *)
(***************************************************************************)
\* number of passwords configure may be given
MaxSecrets == 1
\* number of records a term listing may return
MaxTerms == 2
\* number of entries the log of publish results may grow to
MaxLog == 1

(***************************************************************************)
(* Python helpers.                                                         *)
(***************************************************************************)
EmptyDict == [k \in {} |-> "None"]

\* d[k] = v
Put(d, k, v) == [x \in (DOMAIN d) \cup {k} |-> IF x = k THEN v ELSE d[x]]

\* d.get(k, default)
Get(d, k, default) == IF k \in DOMAIN d THEN d[k] ELSE default

\* truth value of None / True / False
Truthy(v) == v \notin {"None", "False"}

\* "".join(parts)
RECURSIVE Join(_)
Join(parts) == IF parts = <<>> THEN "" ELSE Head(parts) \o Join(Tail(parts))

\* mutant: the trailing slashes are kept
RStripSlash_Kept(parts) == parts

\* parts.rstrip('/') on a string given as its parts, "/" being a part of its own
RECURSIVE RStripSlash(_)
RStripSlash(parts) ==
    IF parts # <<>> /\ parts[Len(parts)] = "/"
    THEN RStripSlash(SubSeq(parts, 1, Len(parts) - 1))
    ELSE parts

\* parts.replace(tok, '') for a token that is a part of its own
RECURSIVE Remove(_, _)
Remove(parts, tok) ==
    IF parts = <<>> THEN <<>>
    ELSE IF Head(parts) = tok THEN Remove(Tail(parts), tok)
    ELSE <<Head(parts)>> \o Remove(Tail(parts), tok)

\* part.lower()
Lower(part) ==
    CASE part = "MyBlog.WordPress.com" -> "myblog.wordpress.com"
      [] part = "News" -> "news"
      [] part = "Tech" -> "tech"
      [] part = "Other" -> "other"
      [] OTHER -> part

\* 'wordpress.com' in s.lower(), on the parts of s
ContainsWpCom(parts) ==
    \E i \in DOMAIN parts : Lower(parts[i]) \in {"myblog.wordpress.com"}

\* base64.b64encode(s.encode()).decode(): an encoding, not the identity
B64(s) == "b64<" \o s \o ">"

(***************************************************************************)
(* Inputs.                                                                 *)
(***************************************************************************)
\* the site URLs the user may enter, each as its parts
SiteUrls ==
    { <<"https://", "example.com">>,
      <<"https://", "example.com", "/">>,
      <<"https://", "MyBlog.WordPress.com", "/">> }

Usernames == {"admin"}

Secrets == {"pw" \o ToString(i) : i \in 1..MaxSecrets}

\* the HTTP statuses a site answers with
Statuses == {200, 201, 401, 403, 404, 500}

\* one record of a term listing
TermRecords ==
    { [id |-> 3, name |-> "News"], [id |-> 4, name |-> "Tech"], [id |-> 5] }

TermLists == UNION {[1..n -> TermRecords] : n \in 0..MaxTerms}

\* the exception response.json() raises on a body that is not JSON: the requests
\* library's own JSONDecodeError (a RequestException) or the json module's (a
\* ValueError), as the installed version of the library has it
JsonErrors == {"requests.JSONDecodeError", "json.JSONDecodeError"}

\* response bodies: the text, how it parses as JSON, and the parsed value
ObjectBodies ==
    { [text |-> "{full}", json |-> "object",
       val |-> [name |-> "Alice", id |-> 7, link |-> "https://example.com/?p=7",
                ID |-> 7, URL |-> "https://myblog.wordpress.com/?p=7",
                source_url |-> "https://example.com/img.png"]],
      [text |-> "{}", json |-> "object", val |-> EmptyDict] }

ArrayBodies == { [text |-> "[terms]", json |-> "array", val |-> l] : l \in TermLists }

InvalidBodies ==
    { [text |-> "<html>", json |-> "invalid", raises |-> e] : e \in JsonErrors }

Bodies == ObjectBodies \cup ArrayBodies \cup InvalidBodies

\* the body of a response whose status is neither 200 nor 201: only its text is read
ErrorBody == [text |-> "<html>", json |-> "invalid", raises |-> "json.JSONDecodeError"]

\* what a request ends with: an HTTP response, a timeout, a transport error
ResponsesWith(bodies) ==
    { [kind |-> "http", status |-> s, body |-> b] : s \in {200, 201}, b \in bodies }
    \cup { [kind |-> "http", status |-> s, body |-> ErrorBody] : s \in Statuses \ {200, 201} }
    \cup { [kind |-> "timeout"], [kind |-> "neterr"] }

\* the responses to a term listing
Responses == ResponsesWith(Bodies)

\* the responses to the requests that read no list: one array body stands for all
PlainResponses ==
    ResponsesWith(ObjectBodies \cup InvalidBodies
                  \cup {[text |-> "[terms]", json |-> "array", val |-> <<>>]})

(***************************************************************************)
(* Values a call ends with, requests, and the record of a call.            *)
(***************************************************************************)
Return(v) == [kind |-> "return", value |-> v]

Raise(exc) == [kind |-> "raise", exc |-> exc]

\* str(e) of a caught exception
ExcText(exc) == <<"str(" \o exc \o ")">>

\* requests.get(url, headers=..., timeout=...)
HttpGet(url, headers, timeout) ==
    [method |-> "GET", url |-> url, headers |-> headers, timeout |-> timeout]

\* requests.post(url, headers=..., data=... or json=..., timeout=...)
HttpPost(url, headers, payload, timeout) ==
    [method |-> "POST", url |-> url, headers |-> headers, timeout |-> timeout,
     payload |-> payload]

Call(op, args, before, after, sent, recv, outcome, notices) ==
    [op |-> op, args |-> args, before |-> before, after |-> after, sent |-> sent,
     recv |-> recv, outcome |-> outcome, notices |-> notices]

IsHttp(r, status) == r.kind = "http" /\ r.status = status

(***************************************************************************)
(* AdvancedPublisher.setup_wordpress                                       *)
(***************************************************************************)
\* mutant: the configuration starts as if pretty permalinks had been detected
InitialQueryParams_False == "False"

\* 'use_query_params': None, "will be detected automatically"
InitialQueryParams == "None"

setup_wordpress(site_url, username, password) ==
    LET is_wpcom == ContainsWpCom(site_url)
    IN  IF is_wpcom
        THEN LET site_domain ==
                     Join(RStripSlash(Remove(Remove(site_url, "https://"), "http://")))
             IN  [site_url |-> Join(RStripSlash(site_url)),
                  site_domain |-> site_domain,
                  username |-> username,
                  password |-> password,
                  is_wpcom |-> "True",
                  api_base |-> "https://public-api.wordpress.com/rest/v1.1/sites/"
                               \o site_domain,
                  headers |-> [x \in {"Content-Type", "Authorization"} |->
                                  IF x = "Content-Type" THEN "application/json"
                                  ELSE "Bearer " \o password]]
        ELSE [site_url |-> Join(RStripSlash(site_url)),
              username |-> username,
              password |-> password,
              is_wpcom |-> "False",
              use_query_params |-> InitialQueryParams,
              headers |-> [x \in {"Content-Type", "Authorization"} |->
                              IF x = "Content-Type" THEN "application/json"
                              ELSE "Basic " \o B64(username \o ":" \o password)]]

(***************************************************************************)
(* AdvancedPublisher._get_api_url.  Every caller checks the configuration  *)
(* first, so the ValueError branch is the marker value below.              *)
(***************************************************************************)
ValueErrorNotSet == "ValueError: WordPress configuration not set."

\* mutant: the query parameter form is used unless the mode is known to be pretty
_get_api_url_UnlessFalse(cfg, endpoint) ==
    IF DOMAIN cfg = {} THEN ValueErrorNotSet
    ELSE IF Truthy(Get(cfg, "is_wpcom", "None"))
    THEN cfg.api_base \o endpoint
    ELSE IF Get(cfg, "use_query_params", "False") # "False"
         THEN cfg.site_url \o "/?rest_route=" \o endpoint
         ELSE cfg.site_url \o "/wp-json" \o endpoint

_get_api_url(cfg, endpoint) ==
    IF DOMAIN cfg = {} THEN ValueErrorNotSet
    ELSE IF Truthy(Get(cfg, "is_wpcom", "None"))
    THEN cfg.api_base \o endpoint
    ELSE IF Truthy(Get(cfg, "use_query_params", "False"))
         THEN cfg.site_url \o "/?rest_route=" \o endpoint
         ELSE cfg.site_url \o "/wp-json" \o endpoint

(***************************************************************************)
(* AdvancedPublisher.test_wordpress_connection.  r1 and r2 are what the    *)
(* first and the second request end with.                                  *)
(***************************************************************************)
NotConfiguredResult == [success |-> "False", error |-> <<"WordPress not configured">>]

AuthFailedResult ==
    [success |-> "False",
     error |-> <<"Authentication failed. Please check your username and application password.">>]

\* the exceptions except requests.exceptions.RequestException catches (Timeout is
\* one too, and is caught by the clause before it)
RequestExceptions == {"ConnectionError", "requests.JSONDecodeError"}

\* the except clauses of test_wordpress_connection
TestTimeoutResult ==
    [success |-> "False",
     error |-> <<"Connection timed out. Please check the URL and your network connection.">>]

TestNetworkResult(exc) ==
    [success |-> "False", error |-> <<"Network error or invalid URL: ">> \o ExcText(exc)]

TestOtherResult(exc) == [success |-> "False", error |-> ExcText(exc)]

\* the exception response.json() followed by .get(...) raises, "" when none
JsonObjectError(body) ==
    CASE body.json = "invalid" -> body.raises
      [] body.json = "array" -> "AttributeError"
      [] OTHER -> ""

\* mutant: the clause for RequestException stands before the clause for Timeout,
\* which is a RequestException too
TestExcept_NetworkFirst(exc) ==
    CASE exc \in RequestExceptions \cup {"Timeout"} -> TestNetworkResult(exc)
      [] OTHER -> TestOtherResult(exc)

\* the handler test_wordpress_connection runs for an exception of the try block
TestExcept(exc) ==
    CASE exc = "Timeout" -> TestTimeoutResult
      [] exc \in RequestExceptions -> TestNetworkResult(exc)
      [] OTHER -> TestOtherResult(exc)

\* the exception a request raises, "" when it is answered
TransportError(r) ==
    CASE r.kind = "timeout" -> "Timeout"
      [] r.kind = "neterr" -> "ConnectionError"
      [] OTHER -> ""

WpcomConnected(response) ==
    [success |-> "True",
     message |-> <<"Connected to WordPress.com site: ",
                   Get(response.body.val, "name", "Unknown")>>]

WpcomPrivateResult ==
    [success |-> "False",
     error |-> <<"WordPress.com site is private or in Coming Soon mode. Please make your site public first.">>]

WpcomApiError(response) ==
    [success |-> "False",
     error |-> <<"WordPress.com API error: ", ToString(response.status), " - ",
                 response.body.text>>]

\* mutant: the branch for 403 is missing
WpcomStatusResult_No403(response) ==
    IF response.status = 200
    THEN IF JsonObjectError(response.body) # ""
         THEN TestExcept(JsonObjectError(response.body))
         ELSE WpcomConnected(response)
    ELSE WpcomApiError(response)

\* the if / elif / else over response.status_code of the WordPress.com branch
WpcomStatusResult(response) ==
    IF response.status = 200
    THEN IF JsonObjectError(response.body) # ""
         THEN TestExcept(JsonObjectError(response.body))
         ELSE WpcomConnected(response)
    ELSE IF response.status = 403
    THEN WpcomPrivateResult
    ELSE WpcomApiError(response)

TestWpcom(cfg, r1) ==
    LET req == HttpGet(_get_api_url(cfg, "/"), cfg.headers, 10)
        result == IF TransportError(r1) # "" THEN TestExcept(TransportError(r1))
                  ELSE WpcomStatusResult(r1)
    IN  Call("test_wordpress_connection", <<>>, cfg, cfg, <<req>>, <<r1>>,
             Return(result), <<>>)

\* the generic error at the end of the self-hosted branch: response is the variable
\* of that name, which holds the response last received
TestApiError(response) ==
    [success |-> "False",
     error |-> <<"WordPress API error: ", ToString(response.status), " - ",
                 response.body.text,
                 ". Check if REST API is enabled and credentials are correct.">>]

\* mutant: an authentication failure is retried on the fallback URL too
FallbackNeeded_404or401(response) == response.status \in {404, 401}

\* mutant: the fallback is tried after every status but 200
FallbackNeeded_Not200(response) == response.status # 200

\* if response.status_code == 404: the fallback request is sent
FallbackNeeded(response) == response.status = 404

\* the value stored in use_query_params when the fallback request is answered 200
QueryParamsDetected == "True"

\* mutant: the detected pretty form is not recorded
PrettyDetected_Unset == "None"

\* the value stored in use_query_params when the first request is answered 200
PrettyDetected == "False"

\* the URL of the first request ("Try pretty permalinks first")
FirstProbeUrl(cfg) == _get_api_url(cfg, "/wp/v2/users/me")

\* mutant: the request headers are the shared dict itself, not a copy of it
AfterHeadersCopy_Aliased(cfg, headers_to_use) == Put(cfg, "headers", headers_to_use)

\* headers_to_use = self.wordpress_config['headers'].copy(): the configuration a
\* call leaves behind after it edited the headers of its own request
AfterHeadersCopy(cfg, headers_to_use) == cfg

TestSelfHosted(cfg0, r1, r2) ==
    LET headers_to_use == Put(cfg0.headers, "Accept", "application/json")
        cfg == AfterHeadersCopy(cfg0, headers_to_use)
        pretty_url == FirstProbeUrl(cfg0)
        req1 == HttpGet(pretty_url, headers_to_use, 10)
        fallback_url == cfg0.site_url \o "/?rest_route=/wp/v2/users/me"
        req2 == HttpGet(fallback_url, headers_to_use, 10)
        fail1(res) == Call("test_wordpress_connection", <<>>, cfg0, cfg, <<req1>>, <<r1>>,
                           Return(res), <<>>)
        fail2(res) == Call("test_wordpress_connection", <<>>, cfg0, cfg, <<req1, req2>>,
                           <<r1, r2>>, Return(res), <<>>)
    IN  IF TransportError(r1) # ""
        THEN fail1(TestExcept(TransportError(r1)))
        ELSE IF FallbackNeeded(r1)
        THEN IF TransportError(r2) # ""
             THEN fail2(TestExcept(TransportError(r2)))
             ELSE IF r2.status = 200
             THEN IF JsonObjectError(r2.body) # ""
                  THEN fail2(TestExcept(JsonObjectError(r2.body)))
                  ELSE Call("test_wordpress_connection", <<>>, cfg0,
                            Put(cfg, "use_query_params", QueryParamsDetected),
                            <<req1, req2>>, <<r1, r2>>,
                            Return([success |-> "True",
                                    message |-> <<"Connected as ",
                                                  Get(r2.body.val, "name", "Unknown"),
                                                  " (using query parameter format)">>]),
                            <<>>)
             ELSE IF r2.status = 401
             THEN fail2(AuthFailedResult)
             ELSE fail2(TestApiError(r2))
        ELSE IF r1.status = 200
        THEN IF JsonObjectError(r1.body) # ""
             THEN fail1(TestExcept(JsonObjectError(r1.body)))
             ELSE Call("test_wordpress_connection", <<>>, cfg0,
                       Put(cfg, "use_query_params", PrettyDetected),
                       <<req1>>, <<r1>>,
                       Return([success |-> "True",
                               message |-> <<"Connected as ",
                                             Get(r1.body.val, "name", "Unknown")>>]),
                       <<>>)
        ELSE IF r1.status = 401
        THEN fail1(AuthFailedResult)
        ELSE fail1(TestApiError(r1))

test_wordpress_connection(cfg, r1, r2) ==
    IF DOMAIN cfg = {}
    THEN Call("test_wordpress_connection", <<>>, cfg, cfg, <<>>, <<>>,
              Return(NotConfiguredResult), <<>>)
    ELSE IF Truthy(Get(cfg, "is_wpcom", "None"))
    THEN TestWpcom(cfg, r1)
    ELSE TestSelfHosted(cfg, r1, r2)

(***************************************************************************)
(* AdvancedPublisher._get_terms_robust (fetch_categories, fetch_tags).     *)
(***************************************************************************)
Notice(level, text) == [level |-> level, text |-> text]

\* the records appended to terms_list before the loop ends or a record fails
RECURSIVE TermsAppended(_)
TermsAppended(terms_data) ==
    IF terms_data = <<>> THEN <<>>
    ELSE IF {"id", "name"} \subseteq DOMAIN Head(terms_data)
    THEN <<[id |-> Head(terms_data).id, name |-> Head(terms_data).name]>>
         \o TermsAppended(Tail(terms_data))
    ELSE <<>>

\* the exception the loop over response.json() raises, "" when none
TermsLoopError(body) ==
    CASE body.json = "invalid" -> body.raises
      [] body.json = "object" -> IF DOMAIN body.val = {} THEN "" ELSE "TypeError"
      [] OTHER -> IF \E i \in DOMAIN body.val :
                        ~({"id", "name"} \subseteq DOMAIN body.val[i])
                  THEN "KeyError" ELSE ""

\* mutant: the check for a WordPress.com site is left out
UnsupportedOnWpcom_Never(cfg) == FALSE

\* if self.wordpress_config.get('is_wpcom'): the operation is not supported
UnsupportedOnWpcom(cfg) == Truthy(Get(cfg, "is_wpcom", "None"))

_get_terms_robust(cfg, term_type, r) ==
    LET op == "_get_terms_robust"
        done(sent, recv, outcome, notices) ==
            Call(op, <<term_type>>, cfg, cfg, sent, recv, outcome, notices)
    IN  IF UnsupportedOnWpcom(cfg)
        THEN done(<<>>, <<>>, Return(<<>>),
                  <<Notice("warning",
                           <<"Fetching ", term_type,
                             " list is not fully supported for WordPress.com via this API configuration.">>)>>)
        ELSE IF "headers" \notin DOMAIN cfg
        THEN done(<<>>, <<>>, Raise("KeyError"), <<>>)
        ELSE
        LET headers_to_use == Put(cfg.headers, "Accept", "application/json")
            endpoint == "/wp/v2/" \o term_type
            api_url == _get_api_url(cfg, endpoint)
            req == HttpGet(api_url, headers_to_use, 10)
            err(text) == <<Notice("error", text)>>
            sentDone(sent, recv, outcome, notices) ==
                Call(op, <<term_type>>, cfg, AfterHeadersCopy(cfg, headers_to_use),
                     sent, recv, outcome, notices)
        IN  IF r.kind = "timeout"
            THEN sentDone(<<req>>, <<r>>, Return(<<>>),
                      err(<<"Timed out fetching ", term_type,
                            ". Check network or site responsiveness.">>))
            ELSE IF r.kind = "neterr"
            THEN sentDone(<<req>>, <<r>>, Return(<<>>),
                      err(<<"Network error fetching ", term_type, ": ">>
                          \o ExcText("ConnectionError")))
            ELSE IF r.status # 200
            THEN sentDone(<<req>>, <<r>>, Return(<<>>),
                      err(<<"Failed to fetch ", term_type, " from ", api_url, ": ",
                            ToString(r.status), " - ", r.body.text>>))
            ELSE IF TermsLoopError(r.body) = ""
            THEN sentDone(<<req>>, <<r>>,
                      Return(IF r.body.json = "array" THEN TermsAppended(r.body.val)
                             ELSE <<>>),
                      <<>>)
            ELSE IF TermsLoopError(r.body) \in RequestExceptions
            THEN sentDone(<<req>>, <<r>>, Return(<<>>),
                      err(<<"Network error fetching ", term_type, ": ">>
                          \o ExcText(TermsLoopError(r.body))))
            ELSE IF TermsLoopError(r.body) = "json.JSONDecodeError"
            THEN sentDone(<<req>>, <<r>>, Return(<<>>),
                      err(<<"Failed to decode JSON from ", term_type, " response: ",
                            r.body.text>>))
            ELSE \* except Exception: reports, and falls through to return terms_list
                 sentDone(<<req>>, <<r>>,
                      Return(IF r.body.json = "array" THEN TermsAppended(r.body.val)
                             ELSE <<>>),
                      err(<<"Error processing ", term_type, " data: ">>
                          \o ExcText(TermsLoopError(r.body))))

(***************************************************************************)
(* AdvancedPublisher.upload_image_to_wordpress                             *)
(***************************************************************************)
\* the exception reading media_info['id'], media_info['source_url'] raises, "" when none
MediaInfoError(body) ==
    CASE body.json = "invalid" -> body.raises
      [] body.json = "array" -> "TypeError"
      [] OTHER -> IF {"id", "source_url"} \subseteq DOMAIN body.val THEN "" ELSE "KeyError"

UploadExcept(exc) ==
    CASE exc = "Timeout" ->
           [success |-> "False",
            error |-> <<"Image upload timed out. The WordPress site might be slow or unreachable.">>]
      [] exc \in RequestExceptions ->
           [success |-> "False",
            error |-> <<"Network error during image upload: ">> \o ExcText(exc)]
      [] OTHER ->
           [success |-> "False",
            error |-> <<"Unexpected error during image upload: ">> \o ExcText(exc)]

upload_image_to_wordpress(cfg, image_data, filename, mime_type, r) ==
    LET op == "upload_image_to_wordpress"
        args == <<image_data, filename, mime_type>>
    IN  IF DOMAIN cfg = {}
        THEN Call(op, args, cfg, cfg, <<>>, <<>>, Return(NotConfiguredResult), <<>>)
        ELSE IF UnsupportedOnWpcom(cfg)
        THEN Call(op, args, cfg, cfg, <<>>, <<>>,
                  Return([success |-> "False",
                          error |-> <<"WordPress.com image upload not fully supported in this version. Try self-hosted WP.">>]),
                  <<Notice("warning",
                           <<"WordPress.com image upload is more complex and not fully implemented for direct file upload in this version.">>)>>)
        ELSE
        LET media_api_url == _get_api_url(cfg, "/wp/v2/media")
            headers_to_use ==
                Put(Put(cfg.headers, "Content-Type", mime_type), "Content-Disposition",
                    "attachment; filename=\"" \o filename \o "\"")
            req == HttpPost(media_api_url, headers_to_use, image_data, 30)
            result ==
                IF TransportError(r) # ""
                THEN UploadExcept(TransportError(r))
                ELSE IF r.status = 201
                THEN IF MediaInfoError(r.body) # ""
                     THEN UploadExcept(MediaInfoError(r.body))
                     ELSE [success |-> "True",
                           media_id |-> r.body.val.id,
                           media_url |-> r.body.val.source_url,
                           message |-> <<"Image '", filename,
                                         "' uploaded successfully to media library.">>]
                ELSE [success |-> "False",
                      error |-> <<"Image upload failed: ", ToString(r.status), " - ",
                                  r.body.text>>]
        IN  Call(op, args, cfg, AfterHeadersCopy(cfg, headers_to_use), <<req>>, <<r>>,
                 Return(result), <<>>)

(***************************************************************************)
(* AdvancedPublisher.publish_to_wordpress                                  *)
(***************************************************************************)
\* markdown.markdown(content, extensions=[...]): a conversion, not the identity
Markdown(content) == "<html of " \o content \o ">"

\* sep.join(names)
RECURSIVE JoinWith(_, _)
JoinWith(names, sep) ==
    IF names = <<>> THEN ""
    ELSE IF Len(names) = 1 THEN names[1]
    ELSE Head(names) \o sep \o JoinWith(Tail(names), sep)

\* mutant: every cached term is selected, whatever names were asked for
SelectedIds_All(existing, names) == [i \in DOMAIN existing |-> existing[i].id]

\* mutant: the loop runs over the requested names and adds the id of each
\* cached term a name matches
RECURSIVE SelectedIds_PerName(_, _)
SelectedIds_PerName(existing, names) ==
    IF names = <<>> THEN <<>>
    ELSE LET found == SelectSeq(existing, LAMBDA t : Lower(t.name) = Lower(Head(names)))
         IN  [i \in DOMAIN found |-> found[i].id]
             \o SelectedIds_PerName(existing, Tail(names))

\* [t['id'] for t in existing if t['name'].lower() in [n.lower() for n in names]]
RECURSIVE SelectedIds(_, _)
SelectedIds(existing, names) ==
    IF existing = <<>> THEN <<>>
    ELSE (IF \E i \in DOMAIN names : Lower(Head(existing).name) = Lower(names[i])
          THEN <<Head(existing).id>> ELSE <<>>)
         \o SelectedIds(Tail(existing), names)

\* the integer standing for featured_image_id = None
NoImage == -1

\* the exception reading the keys of post_info raises, "" when none
PostInfoError(body, keys) ==
    CASE body.json = "invalid" -> body.raises
      [] body.json = "array" -> "TypeError"
      [] OTHER -> IF keys \subseteq DOMAIN body.val THEN "" ELSE "KeyError"

PublishExcept(exc) ==
    CASE exc = "Timeout" ->
           [success |-> "False",
            error |-> <<"WordPress publishing timed out. The WordPress site might be slow or unreachable.">>]
      [] exc \in RequestExceptions ->
           [success |-> "False",
            error |-> <<"Network error during WordPress publishing: ">> \o ExcText(exc)]
      [] OTHER ->
           [success |-> "False",
            error |-> <<"WordPress publishing error: ">> \o ExcText(exc)]

\* mutant: category names given for a WordPress.com site are dropped silently
WpcomCategoryNotices_Silent(categories) == <<>>

\* if categories: st.warning(...) on a WordPress.com site
WpcomCategoryNotices(categories) ==
    IF categories # <<>>
    THEN <<Notice("warning",
                  <<"Categories not directly supported for WordPress.com via this API version's post creation. Post will be uncategorized or default.">>)>>
    ELSE <<>>

\* mutant: any 2xx answer of the site counts as the created post
PostCreated_AnySuccess(response) == response.status \in {200, 201}

\* mutant: the self-hosted branch tests for 200 as the WordPress.com branch does
PostCreated_Ok200(response) == response.status = 200

\* if response.status_code == 201 on a self-hosted site
PostCreated(response) == response.status = 201

PublishWpcom(cfg, args, post_data0, r) ==
    LET status == args[3]
        categories == args[4]
        tags == args[5]
        post_data == IF tags # <<>> THEN Put(post_data0, "tags", JoinWith(tags, ","))
                     ELSE post_data0
        notices == WpcomCategoryNotices(categories)
        req == HttpPost(_get_api_url(cfg, "/posts/new"), cfg.headers, post_data, 30)
        result ==
            IF TransportError(r) # ""
            THEN PublishExcept(TransportError(r))
            ELSE IF r.status = 200
            THEN IF PostInfoError(r.body, {"ID", "URL"}) # ""
                 THEN PublishExcept(PostInfoError(r.body, {"ID", "URL"}))
                 ELSE [success |-> "True",
                       post_id |-> r.body.val.ID,
                       url |-> r.body.val.URL,
                       edit_url |-> <<cfg.site_url, "/wp-admin/post.php?post=",
                                      ToString(r.body.val.ID), "&action=edit">>,
                       message |-> <<"Post published successfully to WordPress.com (Status: ",
                                     status, ")">>]
            ELSE [success |-> "False",
                  error |-> <<"WordPress.com API error: ", ToString(r.status), " - ",
                              r.body.text>>]
    IN  Call("publish_to_wordpress", args, cfg, cfg, <<req>>, <<r>>, Return(result),
             notices)

PublishSelfHosted(cfg, session, args, post_data0, r) ==
    LET status == args[3]
        categories == args[4]
        tags == args[5]
        selected_category_ids ==
            SelectedIds(Get(session, "wp_all_categories", <<>>), categories)
        selected_tag_ids == SelectedIds(Get(session, "wp_all_tags", <<>>), tags)
        post_data1 == IF categories # <<>> /\ selected_category_ids # <<>>
                      THEN Put(post_data0, "categories", selected_category_ids)
                      ELSE post_data0
        post_data == IF tags # <<>> /\ selected_tag_ids # <<>>
                     THEN Put(post_data1, "tags", selected_tag_ids)
                     ELSE post_data1
        notices ==
            (IF categories # <<>> /\ selected_category_ids = <<>>
             THEN <<Notice("warning",
                           <<"None of the specified categories (",
                             JoinWith(categories, ", "),
                             ") were found or selected. Post will be uncategorized or default.">>)>>
             ELSE <<>>)
            \o
            (IF tags # <<>> /\ selected_tag_ids = <<>>
             THEN <<Notice("warning",
                           <<"None of the specified tags (", JoinWith(tags, ", "),
                             ") were found or selected. Post will be published without specified tags.">>)>>
             ELSE <<>>)
        api_url == _get_api_url(cfg, "/wp/v2/posts")
        req == HttpPost(api_url, cfg.headers, post_data, 30)
        result ==
            IF TransportError(r) # ""
            THEN PublishExcept(TransportError(r))
            ELSE IF PostCreated(r)
            THEN IF PostInfoError(r.body, {"id", "link"}) # ""
                 THEN PublishExcept(PostInfoError(r.body, {"id", "link"}))
                 ELSE [success |-> "True",
                       post_id |-> r.body.val.id,
                       url |-> r.body.val.link,
                       edit_url |-> <<cfg.site_url, "/wp-admin/post.php?post=",
                                      ToString(r.body.val.id), "&action=edit">>,
                       message |-> <<"Post published successfully to WordPress (Status: ",
                                     status, ")">>]
            ELSE [success |-> "False",
                  error |-> <<"WordPress API error: ", ToString(r.status), " - ",
                              r.body.text>>]
    IN  Call("publish_to_wordpress", args, cfg, cfg, <<req>>, <<r>>, Return(result),
             notices)

\* args = <<title, content, status, categories, tags, featured_image_id>>; a list
\* argument left at its default None is the empty list, which the code treats alike
publish_to_wordpress(cfg, session, args, r) ==
    IF DOMAIN cfg = {}
    THEN Call("publish_to_wordpress", args, cfg, cfg, <<>>, <<>>,
              Return(NotConfiguredResult), <<>>)
    ELSE
    LET html_content == Markdown(args[2])
        base == [title |-> args[1], content |-> html_content, status |-> args[3],
                 format |-> "standard"]
        featured_image_id == args[6]
        post_data0 == IF featured_image_id # NoImage /\ featured_image_id # 0
                      THEN Put(base, "featured_media", featured_image_id)
                      ELSE base
    IN  IF Truthy(Get(cfg, "is_wpcom", "None"))
        THEN PublishWpcom(cfg, args, post_data0, r)
        ELSE PublishSelfHosted(cfg, session, args, post_data0, r)

(***************************************************************************)
(* The state machine: one step is one call of a method of the publisher.   *)
(***************************************************************************)
\* what the session holds as fetched terms (st.session_state), read by publish
SessionStates ==
    { EmptyDict,
      [wp_all_categories |-> <<[id |-> 3, name |-> "News"], [id |-> 4, name |-> "Tech"]>>,
       wp_all_tags |-> <<[id |-> 4, name |-> "Tech"]>>] }

TermTypes == {"categories", "tags"}

NameLists == { <<>>, <<"News", "news">>, <<"news", "Other">>, <<"Other">> }

PublishArgs ==
    { <<"Hello", "# Hi", st, c, t, f>> :
        st \in {"draft"}, c \in NameLists, t \in {<<>>, <<"Tech">>}, f \in {NoImage, 7} }

\* the second request of a call is drawn only when the first response leads to it
SecondResponses(r1) ==
    IF r1.kind = "http" /\ FallbackNeeded(r1) THEN PlainResponses ELSE {r1}

Init ==
    /\ wordpress_config = EmptyDict
    /\ session_state \in SessionStates
    /\ calls = <<>>
    /\ shown = <<>>
    /\ detectedQP = FALSE

\* the call made in a step, and what it leaves behind
Step(call) ==
    /\ wordpress_config' = call.after
    /\ calls' = <<call>>
    /\ UNCHANGED <<session_state, shown>>

Configure ==
    \E site_url \in SiteUrls, username \in Usernames, password \in Secrets :
        /\ Step(Call("setup_wordpress", <<site_url, username, password>>,
                     wordpress_config, setup_wordpress(site_url, username, password),
                     <<>>, <<>>, Return("None"), <<>>))
        /\ detectedQP' = FALSE

TestConnection ==
    \E r1 \in PlainResponses :
      \E r2 \in SecondResponses(r1) :
        LET call == test_wordpress_connection(wordpress_config, r1, r2)
        IN  /\ Step(call)
            /\ detectedQP' =
                 IF /\ Len(call.recv) = 2
                    /\ IsHttp(call.recv[2], 200)
                    /\ call.outcome.value.success = "True"
                 THEN TRUE ELSE detectedQP

FetchTerms ==
    \E term_type \in TermTypes, r \in Responses :
        /\ Step(_get_terms_robust(wordpress_config, term_type, r))
        /\ UNCHANGED detectedQP

UploadMedia ==
    \E r \in PlainResponses :
        /\ Step(upload_image_to_wordpress(wordpress_config, "bytes", "cover.png",
                                          "image/png", r))
        /\ UNCHANGED detectedQP

Publish ==
    \E args \in PublishArgs, r \in PlainResponses :
        /\ Step(publish_to_wordpress(wordpress_config, session_state, args, r))
        /\ UNCHANGED detectedQP

Next == Configure \/ TestConnection \/ FetchTerms \/ UploadMedia \/ Publish

Spec == Init /\ [][Next]_vars

(***************************************************************************)
(* The session machine: one step is one run of a handler of main(), which  *)
(* makes several calls of the publisher and writes st.session_state.  The  *)
(* variable calls holds the calls of the run in their order, shown the     *)
(* notices the handler itself put on the page (emoji left out).            *)
(***************************************************************************)
\* what the user types as site URL, and the sites a configuration file names
SessionSiteUrls == { <<"https://", "example.com">>, <<"https://", "MyBlog.WordPress.com", "/">> }

\* the radio "WordPress Type"
WpTypes == {"Self-hosted WordPress", "WordPress.com"}

FullBody == CHOOSE b \in ObjectBodies : b.text = "{full}"

\* the answers to the probes of the connection test
ProbeResponses ==
    { [kind |-> "http", status |-> 200, body |-> FullBody],
      [kind |-> "http", status |-> 404, body |-> ErrorBody],
      [kind |-> "http", status |-> 401, body |-> ErrorBody],
      [kind |-> "timeout"] }

FallbackResponses(r1) ==
    IF r1.kind = "http" /\ FallbackNeeded(r1)
    THEN {r \in ProbeResponses : r.kind = "http" /\ r.status \in {200, 404}}
    ELSE {r1}

\* the answers to the two term listings that follow a successful test
ListingResponses ==
    { [kind |-> "http", status |-> 200,
       body |-> [text |-> "[terms]", json |-> "array",
                 val |-> <<[id |-> 3, name |-> "News"]>>]],
      [kind |-> "http", status |-> 500, body |-> ErrorBody] }

\* the listings are requested only after a successful test of a self-hosted site
ListingsAfter(r1, r2, wp_site) ==
    IF /\ ~ContainsWpCom(wp_site)
       /\ \/ IsHttp(r1, 200)
          \/ r1.kind = "http" /\ FallbackNeeded(r1) /\ IsHttp(r2, 200)
    THEN ListingResponses
    ELSE {CHOOSE r \in ListingResponses : r.status = 500}

\* the answers to the upload of the featured image
MediaResponses ==
    { [kind |-> "http", status |-> 201, body |-> FullBody],
      [kind |-> "http", status |-> 201,
       body |-> [text |-> "{media}", json |-> "object",
                 val |-> [id |-> 9, source_url |-> "https://example.com/img9.png"]]],
      [kind |-> "http", status |-> 201,
       body |-> [text |-> "{}", json |-> "object", val |-> EmptyDict]],
      [kind |-> "http", status |-> 500, body |-> ErrorBody],
      [kind |-> "timeout"] }

\* the answers to the post request
PostResponses ==
    { [kind |-> "http", status |-> 201, body |-> FullBody],
      [kind |-> "http", status |-> 200, body |-> FullBody],
      [kind |-> "http", status |-> 500, body |-> ErrorBody],
      [kind |-> "timeout"] }

\* the featured image of the publish form: the radio, and the data, file name
\* and MIME type the page holds for it (None when no file was given)
FeaturedImages ==
    { [option |-> "None", data |-> "None", filename |-> "None", mime |-> "None"],
      [option |-> "Manual Upload", data |-> "None", filename |-> "None", mime |-> "None"],
      [option |-> "Manual Upload", data |-> "bytes", filename |-> "cover.png",
       mime |-> "image/png"] }

\* the upload is requested only for an image with data
UploadsFor(image) ==
    IF image.option # "None" /\ image.data # "None" THEN MediaResponses
    ELSE {[kind |-> "timeout"]}

\* a multiselect over the names of a cached list offers these selections
RECURSIVE SubLists(_)
SubLists(names) ==
    IF names = <<>> THEN {<<>>}
    ELSE LET rest == SubLists(Tail(names))
         IN  rest \cup {<<Head(names)>> \o l : l \in rest}

NamesOf(terms) == [i \in DOMAIN terms |-> terms[i].name]

\* what a run of a handler leaves: configuration, session, calls made, notices
Run(config, session, made, notices) ==
    [config |-> config, session |-> session, calls |-> made, shown |-> notices]

\* s in result['error'], for the texts the handler looks for
ErrorMentions(error, s) ==
    CASE s = "Coming Soon" -> error = WpcomPrivateResult.error
      [] s = "Authentication failed" -> error = AuthFailedResult.error
      [] OTHER -> \E i \in DOMAIN error : error[i] = s

\* the hint the handler adds under the error of a failed test
TestFailureHints(error) ==
    IF ErrorMentions(error, "Coming Soon")
    THEN <<Notice("markdown",
                  <<"Follow the instructions above to make your WordPress.com site public.">>)>>
    ELSE IF ErrorMentions(error, "401") \/ ErrorMentions(error, "Authentication failed")
    THEN <<Notice("markdown",
                  <<"Check your username and application password/access token.">>)>>
    ELSE IF ErrorMentions(error, "404")
    THEN <<Notice("markdown",
                  <<"Ensure REST API is enabled and URL is correct. For self-hosted, also check permalink settings.">>)>>
    ELSE <<>>

\* the notices on the outcome of one of the two term listings
FetchedNotices(terms, term_type) ==
    IF terms # <<>>
    THEN <<Notice("success", <<"Fetched ", ToString(Len(terms)), " ", term_type, ".">>)>>
    ELSE <<Notice("warning",
                  <<"Could not fetch any ", term_type, ". Ensure ", term_type,
                    " exist and API permissions are correct.">>)>>

\* the handler of the button "Test WordPress Connection"
TestButtonRun(cfg0, session, wp_type, wp_site, wp_user, wp_pass, r1, r2, rc, rt) ==
    LET c_setup == Call("setup_wordpress", <<wp_site, wp_user, wp_pass>>, cfg0,
                        setup_wordpress(wp_site, wp_user, wp_pass),
                        <<>>, <<>>, Return("None"), <<>>)
        c_test == test_wordpress_connection(c_setup.after, r1, r2)
        result == c_test.outcome.value
    IN  IF result.success = "True"
        THEN LET tested == Put(Put(session, "wp_configured", "True"),
                               "wp_site_type", wp_type)
                 ok == <<Notice("success", result.message)>>
             IN  IF ~Truthy(Get(c_test.after, "is_wpcom", "None"))
                 THEN LET detected ==
                              IF Truthy(Get(c_test.after, "use_query_params", "None"))
                              THEN <<Notice("info",
                                            <<"**Detected**: Your site uses query parameter format for REST API">>)>>
                              ELSE <<Notice("info",
                                            <<"**Detected**: Your site uses pretty permalinks for REST API">>)>>
                          c_cat == _get_terms_robust(c_test.after, "categories", rc)
                          c_tag == _get_terms_robust(c_cat.after, "tags", rt)
                      IN  Run(c_tag.after,
                              Put(Put(tested, "wp_all_categories", c_cat.outcome.value),
                                  "wp_all_tags", c_tag.outcome.value),
                              <<c_setup, c_test, c_cat, c_tag>>,
                              ok \o detected
                                 \o FetchedNotices(c_cat.outcome.value, "categories")
                                 \o FetchedNotices(c_tag.outcome.value, "tags"))
                 ELSE Run(c_test.after, tested, <<c_setup, c_test>>,
                          ok \o <<Notice("warning",
                                         <<"Category and Tag fetching is not directly supported for WordPress.com via this application's API configuration yet.">>)>>)
        ELSE Run(c_test.after, Put(session, "wp_configured", "False"),
                 <<c_setup, c_test>>,
                 <<Notice("error", result.error)>>
                 \o TestFailureHints(result.error)
                 \o <<Notice("warning",
                             <<"Click 'Test WordPress Connection' manually if you change credentials.">>)>>)

\* mutant: the id of the uploaded image is not handed to the publish
FeaturedMediaId_Dropped(upload_result) == NoImage

\* featured_media_id = upload_result['media_id'] after a successful upload, else None
FeaturedMediaId(upload_result) ==
    IF upload_result.success = "True" THEN upload_result.media_id ELSE NoImage

\* the entry a successful publish adds to st.session_state.publish_results
PublishLogEntry(result) ==
    [platform |-> "WordPress", status |-> "success", url |-> result.url,
     edit_url |-> result.edit_url, timestamp |-> "datetime.now()"]

\* the handler of the button "Publish Post to WordPress"
PublishButtonRun(cfg0, session, publish_status, categories, tags, image, ru, rp) ==
    LET upload == image.option # "None" /\ image.data # "None"
        c_upload == upload_image_to_wordpress(cfg0, image.data, image.filename,
                                              image.mime, ru)
        upload_result == c_upload.outcome.value
        featured_media_id == IF upload THEN FeaturedMediaId(upload_result) ELSE NoImage
        imageNotices ==
            IF upload
            THEN IF upload_result.success = "True"
                 THEN <<Notice("success", upload_result.message)>>
                 ELSE <<Notice("error",
                               <<"Failed to upload featured image: ">> \o upload_result.error),
                        Notice("warning",
                               <<"Proceeding to publish post without featured image.">>)>>
            ELSE IF image.option # "None"
            THEN <<Notice("warning",
                          <<"No image data available for featured image. Please upload/generate an image first.">>)>>
            ELSE <<>>
        c_publish ==
            publish_to_wordpress(IF upload THEN c_upload.after ELSE cfg0, session,
                                 <<"Hello", "# Hi", publish_status, categories, tags,
                                   featured_media_id>>, rp)
        result == c_publish.outcome.value
        made == IF upload THEN <<c_upload, c_publish>> ELSE <<c_publish>>
    IN  IF result.success = "True"
        THEN Run(c_publish.after,
                 Put(session, "publish_results",
                     Append(Get(session, "publish_results", <<>>), PublishLogEntry(result))),
                 made,
                 imageNotices
                 \o <<Notice("success", <<"Content published successfully to WordPress!">>),
                      Notice("markdown", <<"**View Post:** ", result.url>>),
                      Notice("markdown", <<"**Edit Post:** ">> \o result.edit_url)>>)
        ELSE Run(c_publish.after, session, made,
                 imageNotices
                 \o <<Notice("error", <<"WordPress Publishing Error: ">> \o result.error)>>)

\* the WordPress part of an uploaded configuration file
ImportedWordPress ==
    {EmptyDict} \cup {[site_url |-> s, username |-> u] : s \in SessionSiteUrls, u \in Usernames}

\* the handler of the configuration upload
ImportConfigRun(cfg0, session, wp_cfg) ==
    IF {"site_url", "username"} \subseteq DOMAIN wp_cfg
    THEN Run(setup_wordpress(wp_cfg.site_url, wp_cfg.username, "placeholder_password"),
             Put(session, "wp_configured", "True"),
             <<Call("setup_wordpress",
                    <<wp_cfg.site_url, wp_cfg.username, "placeholder_password">>, cfg0,
                    setup_wordpress(wp_cfg.site_url, wp_cfg.username,
                                    "placeholder_password"),
                    <<>>, <<>>, Return("None"), <<>>)>>,
             <<Notice("success",
                      <<"WordPress configuration partially loaded (password/token needs re-entry).">>),
               Notice("success", <<"Configuration preferences loaded successfully!">>)>>)
    ELSE Run(cfg0, session, <<>>,
             <<Notice("success", <<"Configuration preferences loaded successfully!">>)>>)

SessionInit ==
    /\ wordpress_config = EmptyDict
    /\ session_state = EmptyDict
    /\ calls = <<>>
    /\ shown = <<>>
    /\ detectedQP = FALSE

\* a run of a handler, and what it leaves behind
Handle(run) ==
    /\ wordpress_config' = run.config
    /\ session_state' = run.session
    /\ calls' = run.calls
    /\ shown' = run.shown
    /\ detectedQP' =
         IF \E i \in DOMAIN run.calls :
                /\ run.calls[i].op = "test_wordpress_connection"
                /\ Len(run.calls[i].recv) = 2
                /\ IsHttp(run.calls[i].recv[2], 200)
                /\ run.calls[i].outcome.value.success = "True"
         THEN TRUE
         ELSE IF \E i \in DOMAIN run.calls : run.calls[i].op = "setup_wordpress"
         THEN FALSE
         ELSE detectedQP

TestButton ==
    \E wp_type \in WpTypes, wp_site \in SessionSiteUrls, wp_user \in Usernames,
       wp_pass \in Secrets, r1 \in ProbeResponses :
      \E r2 \in FallbackResponses(r1) :
        \E rc \in ListingsAfter(r1, r2, wp_site), rt \in ListingsAfter(r1, r2, wp_site) :
          Handle(TestButtonRun(wordpress_config, session_state, wp_type, wp_site,
                               wp_user, wp_pass, r1, r2, rc, rt))

\* the publish form is on the page only while wp_configured is set and true
PublishButton ==
    /\ Truthy(Get(session_state, "wp_configured", "False"))
    /\ \E publish_status \in {"draft"},
          selected_categories \in
              SubLists(NamesOf(Get(session_state, "wp_all_categories", <<>>))),
          selected_tags \in SubLists(NamesOf(Get(session_state, "wp_all_tags", <<>>))),
          image \in FeaturedImages, rp \in PostResponses :
        \E ru \in UploadsFor(image) :
        LET run == PublishButtonRun(wordpress_config, session_state, publish_status,
                                    selected_categories, selected_tags, image, ru, rp)
        IN  /\ Len(Get(run.session, "publish_results", <<>>)) <= MaxLog
            /\ Handle(run)

ImportConfig ==
    \E wp_cfg \in ImportedWordPress :
        Handle(ImportConfigRun(wordpress_config, session_state, wp_cfg))

SessionNext == TestButton \/ PublishButton \/ ImportConfig

SessionSpec == SessionInit /\ [][SessionNext]_vars

(***************************************************************************)
(* Vocabulary of the properties.                                           *)
(***************************************************************************)
Configured(cfg) == DOMAIN cfg # {}

HostedCom(cfg) == Configured(cfg) /\ Truthy(Get(cfg, "is_wpcom", "None"))

SelfHosted(cfg) == Configured(cfg) /\ ~Truthy(Get(cfg, "is_wpcom", "None"))

permalinkMode(cfg) ==
    IF "use_query_params" \notin DOMAIN cfg THEN "NotApplicable"
    ELSE CASE cfg.use_query_params = "True" -> "QueryParam"
           [] cfg.use_query_params = "False" -> "Pretty"
           [] OTHER -> "Unknown"

Paths ==
    {"/", "/posts/new", "/wp/v2/users/me", "/wp/v2/categories", "/wp/v2/tags",
     "/wp/v2/media", "/wp/v2/posts"}

\* the calls of the last step
Calls == {calls[i] : i \in DOMAIN calls}

TestCalls == {c \in Calls : c.op = "test_wordpress_connection"}

Returned(c) == c.outcome.kind = "return"

Succeeded(c) == Returned(c) /\ c.outcome.value.success = "True"

Failed(c) == Returned(c) /\ c.outcome.value.success = "False"

\* the text parts of an error result name the status
NamesStatus(result, status) ==
    \E i \in DOMAIN result.error : result.error[i] = ToString(status)

(***************************************************************************)
(* C1.  Once a connection test of a self-hosted site found the query       *)
(* parameter form (first probe 404, fallback 200), every endpoint resolved *)
(* until the next configure is {siteUrl}/?rest_route={path}.               *)
(* The code breaks this: see C3.                                           *)
(***************************************************************************)
C1_QueryParamFormKept ==
    detectedQP =>
        \A p \in Paths :
            _get_api_url(wordpress_config, p)
                = wordpress_config.site_url \o "/?rest_route=" \o p

C3_FirstProbePretty ==
    \A c \in TestCalls :
        SelfHosted(c.before) =>
            c.sent[1].url = c.before.site_url \o "/wp-json/wp/v2/users/me"

ResolvedAsSpecified(cfg, path) ==
    IF HostedCom(cfg)
    THEN "https://public-api.wordpress.com/rest/v1.1/sites/" \o cfg.site_domain \o path
    ELSE IF permalinkMode(cfg) = "QueryParam"
    THEN cfg.site_url \o "/?rest_route=" \o path
    ELSE cfg.site_url \o "/wp-json" \o path

\* the path a call resolves for its request
PathOf(c) ==
    CASE c.op = "_get_terms_robust" -> "/wp/v2/" \o c.args[1]
      [] c.op = "upload_image_to_wordpress" -> "/wp/v2/media"
      [] c.op = "publish_to_wordpress" ->
           IF HostedCom(c.before) THEN "/posts/new" ELSE "/wp/v2/posts"
      [] OTHER -> "/"

C5_ResolveEndpoint ==
    /\ Configured(wordpress_config) =>
           \A p \in Paths :
               _get_api_url(wordpress_config, p) = ResolvedAsSpecified(wordpress_config, p)
    /\ \A c \in Calls :
           (c.op \in {"_get_terms_robust", "upload_image_to_wordpress",
                      "publish_to_wordpress"} /\ c.sent # <<>>) =>
               c.sent[1].url = ResolvedAsSpecified(c.before, PathOf(c))

C5_Witness ==
    \E c \in Calls :
        /\ c.op = "publish_to_wordpress"
        /\ permalinkMode(c.before) = "QueryParam"
        /\ c.sent # <<>>
        /\ c.sent[1].url = "https://example.com/?rest_route=/wp/v2/posts"

(***************************************************************************)
(* C6.  In a connection test of a self-hosted site a 401 on the first      *)
(* probe gives the authentication failure with no second request, and a    *)
(* 401 on the fallback probe (after a 404) gives the authentication        *)
(* failure too; the configuration, the mode with it, stays as it was.      *)
(***************************************************************************)
C6_AuthFailure ==
    \A c \in TestCalls :
        SelfHosted(c.before) =>
            /\ IsHttp(c.recv[1], 401) =>
                   /\ Len(c.sent) = 1
                   /\ c.outcome = Return(AuthFailedResult)
                   /\ c.after = c.before
            /\ (IsHttp(c.recv[1], 404) /\ IsHttp(c.recv[2], 401)) =>
                   /\ c.outcome = Return(AuthFailedResult)
                   /\ c.after = c.before

C6_Witness ==
    \E c \in TestCalls :
        /\ SelfHosted(c.before)
        /\ Len(c.recv) = 2
        /\ IsHttp(c.recv[1], 404)
        /\ IsHttp(c.recv[2], 401)
        /\ Failed(c)

(***************************************************************************)
(* C7.  When the first probe is answered 404 and the fallback probe a      *)
(* status other than 200 and 401, the error returned names the status of   *)
(* both responses: the 404 and the status of the fallback.                 *)
(***************************************************************************)
C7_ErrorNamesBothStatuses ==
    \A c \in TestCalls :
        (/\ SelfHosted(c.before)
         /\ Len(c.recv) = 2
         /\ IsHttp(c.recv[1], 404)
         /\ c.recv[2].kind = "http"
         /\ c.recv[2].status \notin {200, 401}) =>
            /\ Failed(c)
            /\ NamesStatus(c.outcome.value, 404)
            /\ NamesStatus(c.outcome.value, c.recv[2].status)

(***************************************************************************)
(* C8.  A connection test of a self-hosted site sends at most two          *)
(* requests, the second only after a first response of status 404; every   *)
(* other call sends at most one request.                                   *)
(***************************************************************************)
C8_NoRetry ==
    \A c \in Calls :
        /\ Len(c.recv) = Len(c.sent)
        /\ IF c.op = "test_wordpress_connection" /\ SelfHosted(c.before)
           THEN /\ Len(c.sent) \in {1, 2}
                /\ Len(c.sent) = 2 <=> IsHttp(c.recv[1], 404)
           ELSE Len(c.sent) <= 1

C8_Witness ==
    \E c \in TestCalls :
        /\ SelfHosted(c.before)
        /\ Len(c.sent) = 2
        /\ c.sent[1].url # c.sent[2].url
        /\ IsHttp(c.recv[2], 500)

(***************************************************************************)
(* C9.  As claimed: a connection test of a HostedCom site sends one GET to *)
(* the base path; 200 gives success with the site name, 403 the private /  *)
(* coming-soon error, every other status the generic error with the        *)
(* status; the configuration is not touched.                               *)
(***************************************************************************)
HostedComTestSendsOneGet(c) ==
    /\ Len(c.sent) = 1
    /\ c.sent[1].method = "GET"
    /\ c.sent[1].url = c.before.api_base \o "/"
    /\ c.after = c.before

HostedComErrorMapping(c) ==
    /\ IsHttp(c.recv[1], 403) => c.outcome = Return(WpcomPrivateResult)
    /\ (c.recv[1].kind = "http" /\ c.recv[1].status \notin {200, 403}) =>
           /\ Failed(c)
           /\ c.outcome.value.error[1] = "WordPress.com API error: "
           /\ NamesStatus(c.outcome.value, c.recv[1].status)

SiteNameOf(response) ==
    IF "name" \in DOMAIN response.body.val THEN response.body.val.name ELSE "Unknown"

C9_HostedCom200AlwaysSucceeds ==
    \A c \in TestCalls :
        HostedCom(c.before) =>
            /\ HostedComTestSendsOneGet(c)
            /\ HostedComErrorMapping(c)
            /\ IsHttp(c.recv[1], 200) =>
                   /\ Succeeded(c)
                   /\ c.outcome.value.message[2] = SiteNameOf(c.recv[1])

(***************************************************************************)
(* C9, amended.  A connection test of a HostedCom site sends one GET to    *)
(* the base path; 200 with a body that reads as a JSON object gives        *)
(* success with the site name (Unknown when the body has none), 200 with   *)
(* any other body a failure, 403 the private / coming-soon error, every    *)
(* other status the generic error with the status; the configuration is    *)
(* not touched.                                                            *)
(***************************************************************************)
C9_HostedComTest ==
    \A c \in TestCalls :
        HostedCom(c.before) =>
            /\ HostedComTestSendsOneGet(c)
            /\ HostedComErrorMapping(c)
            /\ IsHttp(c.recv[1], 200) =>
                   IF c.recv[1].body.json = "object"
                   THEN /\ Succeeded(c)
                        /\ c.outcome.value.message[2] = SiteNameOf(c.recv[1])
                   ELSE Failed(c)

C9_Witness ==
    \E c \in TestCalls :
        /\ HostedCom(c.before)
        /\ IsHttp(c.recv[1], 200)
        /\ Succeeded(c)
        /\ c.outcome.value.message[2] = "Alice"

(***************************************************************************)
(* C10.  Every operation called before configure returns the NotConfigured *)
(* result and raises nothing.                                              *)
(***************************************************************************)
C10_NotConfiguredReturned ==
    \A c \in Calls :
        (c.op # "setup_wordpress" /\ ~Configured(c.before)) =>
            c.outcome = Return(NotConfiguredResult)

(***************************************************************************)
(* C11.  In a connection test, a media upload and a publish on a           *)
(* configured connection, a request that times out, a request that fails   *)
(* in transport and a response with a non-success status each end the call *)
(* with a failure result of its own kind: the call returns, and a timeout  *)
(* is reported neither as a network error nor as an HTTP error.            *)
(***************************************************************************)
\* the kind of failure the first part of an error message tells the caller
FailureKind(result) ==
    CASE result.error[1] \in
           {"Connection timed out. Please check the URL and your network connection.",
            "Image upload timed out. The WordPress site might be slow or unreachable.",
            "WordPress publishing timed out. The WordPress site might be slow or unreachable."}
           -> "Timeout"
      [] result.error[1] \in
           {"Network error or invalid URL: ", "Network error during image upload: ",
            "Network error during WordPress publishing: "}
           -> "NetworkError"
      [] result.error[1] \in
           {"WordPress API error: ", "WordPress.com API error: ", "Image upload failed: ",
            "Authentication failed. Please check your username and application password.",
            "WordPress.com site is private or in Coming Soon mode. Please make your site public first."}
           -> "HttpError"
      [] OTHER -> "Other"

\* the status the call takes for success
SuccessStatus(c) ==
    CASE c.op = "test_wordpress_connection" -> 200
      [] c.op = "upload_image_to_wordpress" -> 201
      [] OTHER -> IF HostedCom(c.before) THEN 200 ELSE 201

NetworkCalls ==
    {c \in Calls :
        /\ c.op \in {"test_wordpress_connection", "upload_image_to_wordpress",
                     "publish_to_wordpress"}
        /\ Configured(c.before)
        /\ c.recv # <<>>}

C11_DistinctFailureKinds ==
    \A c \in NetworkCalls :
        LET last == c.recv[Len(c.recv)]
        IN  /\ Returned(c)
            /\ last.kind = "timeout" =>
                   Failed(c) /\ FailureKind(c.outcome.value) = "Timeout"
            /\ last.kind = "neterr" =>
                   Failed(c) /\ FailureKind(c.outcome.value) = "NetworkError"
            /\ (last.kind = "http" /\ last.status # SuccessStatus(c)) =>
                   Failed(c) /\ FailureKind(c.outcome.value) = "HttpError"

C11_Witness ==
    \E c \in NetworkCalls :
        /\ c.op = "test_wordpress_connection"
        /\ Len(c.recv) = 2
        /\ c.recv[2].kind = "timeout"
        /\ FailureKind(c.outcome.value) = "Timeout"

(***************************************************************************)
(* C13.  A publish on a WordPress.com connection sends the post with no    *)
(* categories field in its payload; when category names were given the     *)
(* caller gets a warning that they are not applied, and the post is sent   *)
(* all the same.                                                           *)
(***************************************************************************)
PublishCalls == {c \in Calls : c.op = "publish_to_wordpress"}

Warned(c, firstPart) ==
    \E i \in DOMAIN c.notices :
        c.notices[i].level = "warning" /\ c.notices[i].text[1] = firstPart

C13_HostedComDropsCategories ==
    \A c \in PublishCalls :
        HostedCom(c.before) =>
            /\ Len(c.sent) = 1
            /\ c.sent[1].method = "POST"
            /\ "categories" \notin DOMAIN c.sent[1].payload
            /\ c.args[4] # <<>> =>
                   Warned(c, "Categories not directly supported for WordPress.com via this API version's post creation. Post will be uncategorized or default.")

C13_Witness ==
    \E c \in PublishCalls :
        /\ HostedCom(c.before)
        /\ c.args[4] = <<"News", "news">>
        /\ "wp_all_categories" \in DOMAIN session_state
        /\ Len(c.sent) = 1
        /\ "categories" \notin DOMAIN c.sent[1].payload
        /\ Succeeded(c)

(***************************************************************************)
(* C14.  A publish succeeds exactly when the post request was answered     *)
(* with 201 on a self-hosted site and with 200 on WordPress.com; a success *)
(* carries the post id, the post URL and the edit URL                      *)
(* siteUrl/wp-admin/post.php?post={id}&action=edit; every other status     *)
(* gives a failure that names the status and the body.                     *)
(* As stated the claim fails: a post answered with the success status and  *)
(* a body that does not read as the post's JSON object gives a failure.    *)
(***************************************************************************)
AnsweredPublishCalls ==
    {c \in PublishCalls :
        Configured(c.before) /\ Len(c.recv) = 1 /\ c.recv[1].kind = "http"}

\* the fields of the answer the result of a publish is read from
PostKeys(c) == IF HostedCom(c.before) THEN {"ID", "URL"} ELSE {"id", "link"}

ReadablePost(c) ==
    /\ c.recv[1].body.json = "object"
    /\ PostKeys(c) \subseteq DOMAIN c.recv[1].body.val

CarriesPost(c) ==
    LET result == c.outcome.value
        info == c.recv[1].body.val
        id == IF HostedCom(c.before) THEN info.ID ELSE info.id
    IN  /\ {"post_id", "url", "edit_url"} \subseteq DOMAIN result
        /\ result.post_id = id
        /\ result.url = (IF HostedCom(c.before) THEN info.URL ELSE info.link)
        /\ Join(result.edit_url) =
             c.before.site_url \o "/wp-admin/post.php?post=" \o ToString(id)
                               \o "&action=edit"

NamesStatusAndBody(c) ==
    /\ Failed(c)
    /\ NamesStatus(c.outcome.value, c.recv[1].status)
    /\ \E i \in DOMAIN c.outcome.value.error :
           c.outcome.value.error[i] = c.recv[1].body.text

\* the claim as stated
C14_SuccessIffStatus ==
    \A c \in AnsweredPublishCalls :
        /\ Succeeded(c) <=> c.recv[1].status = SuccessStatus(c)
        /\ Succeeded(c) => CarriesPost(c)
        /\ c.recv[1].status # SuccessStatus(c) => NamesStatusAndBody(c)

\* amended: the success status gives success exactly when the body reads as
\* the post's JSON object; the call returns in every case
C14_SuccessIffStatusAndReadable ==
    \A c \in AnsweredPublishCalls :
        /\ Returned(c)
        /\ Succeeded(c) <=> (c.recv[1].status = SuccessStatus(c) /\ ReadablePost(c))
        /\ Succeeded(c) => CarriesPost(c)
        /\ (c.recv[1].status = SuccessStatus(c) /\ ~ReadablePost(c)) => Failed(c)
        /\ c.recv[1].status # SuccessStatus(c) => NamesStatusAndBody(c)

C14_Witness ==
    \E c \in AnsweredPublishCalls :
        /\ SelfHosted(c.before)
        /\ c.recv[1].status = 201
        /\ Succeeded(c)
        /\ c.outcome.value.post_id = 7
        /\ Join(c.outcome.value.edit_url) =
             "https://example.com/wp-admin/post.php?post=7&action=edit"

(***************************************************************************)
(* C15.  In the payload of a publish on a self-hosted site the categories  *)
(* and the tags field, when present, hold only ids of terms of the cached  *)
(* list whose names were asked for; when no name asked for is in the cache *)
(* the field is absent, the caller is warned, and the post is still sent   *)
(* and can succeed.                                                        *)
(***************************************************************************)
SelfHostedPublishCalls == {c \in PublishCalls : SelfHosted(c.before)}

\* the names asked for and the cached terms of a kind, "categories" or "tags"
Requested(c, kind) == IF kind = "categories" THEN c.args[4] ELSE c.args[5]

Cached(kind) ==
    IF kind = "categories" THEN Get(session_state, "wp_all_categories", <<>>)
    ELSE Get(session_state, "wp_all_tags", <<>>)

Matches(term, names) == \E i \in DOMAIN names : Lower(term.name) = Lower(names[i])

MatchingIds(c, kind) ==
    {Cached(kind)[i].id : i \in {j \in DOMAIN Cached(kind) :
                                    Matches(Cached(kind)[j], Requested(c, kind))}}

NoneFoundWarning(kind) ==
    IF kind = "categories" THEN "None of the specified categories ("
    ELSE "None of the specified tags ("

C15_OnlyRequestedCachedIds ==
    \A c \in SelfHostedPublishCalls :
        /\ Len(c.sent) = 1
        /\ \A kind \in TermTypes :
            LET payload == c.sent[1].payload
            IN  /\ kind \in DOMAIN payload =>
                     /\ payload[kind] # <<>>
                     /\ \A i \in DOMAIN payload[kind] :
                            payload[kind][i] \in MatchingIds(c, kind)
                /\ (Requested(c, kind) # <<>> /\ MatchingIds(c, kind) = {}) =>
                     /\ kind \notin DOMAIN payload
                     /\ Warned(c, NoneFoundWarning(kind))

C15_Witness ==
    \E c \in SelfHostedPublishCalls :
        /\ c.args[4] = <<"Other">>
        /\ c.args[5] = <<"Tech">>
        /\ Len(Cached("categories")) = 2
        /\ "categories" \notin DOMAIN c.sent[1].payload
        /\ Warned(c, NoneFoundWarning("categories"))
        /\ "tags" \in DOMAIN c.sent[1].payload
        /\ c.sent[1].payload.tags = <<4>>
        /\ Succeeded(c)

(***************************************************************************)
(* C16.  A requested name selects a cached term when the two are equal as  *)
(* whole names without regard to case, and the id of each selected term is *)
(* in the payload exactly once, however many requested names select it:    *)
(* the names News and news against a cache holding News with id 3 give the *)
(* one id 3.                                                               *)
(***************************************************************************)
Occurrences(seq, x) == Cardinality({i \in DOMAIN seq : seq[i] = x})

\* the list of ids the payload carries for a kind, empty when the field is absent
SentIds(c, kind) ==
    IF kind \in DOMAIN c.sent[1].payload THEN c.sent[1].payload[kind] ELSE <<>>

C16_EachMatchOnce ==
    \A c \in SelfHostedPublishCalls :
        \A kind \in TermTypes :
            \A i \in DOMAIN Cached(kind) :
                Occurrences(SentIds(c, kind), Cached(kind)[i].id) =
                    IF Matches(Cached(kind)[i], Requested(c, kind)) THEN 1 ELSE 0

C16_Witness ==
    \E c \in SelfHostedPublishCalls :
        /\ c.args[4] = <<"News", "news">>
        /\ \E i \in DOMAIN Cached("categories") :
               Cached("categories")[i] = [id |-> 3, name |-> "News"]
        /\ SentIds(c, "categories") = <<3>>

(***************************************************************************)
(* C17.  On a self-hosted site every requested category or tag name that   *)
(* no cached term matches is reported to the caller as not found, also     *)
(* when other names of the same kind were found, and such a name never     *)
(* makes the publish fail.                                                 *)
(* The code reports only when none of the names of a kind was found.       *)
(***************************************************************************)
Unmatched(c, kind) ==
    {i \in DOMAIN Requested(c, kind) :
        \A j \in DOMAIN Cached(kind) :
            Lower(Cached(kind)[j].name) # Lower(Requested(c, kind)[i])}

\* the one report of names not found the code has lists the requested names
ReportedNotFound(c, kind, i) ==
    \E n \in DOMAIN c.notices :
        /\ c.notices[n].level \in {"warning", "error"}
        /\ c.notices[n].text[1] = NoneFoundWarning(kind)
        /\ c.notices[n].text[2] = JoinWith(Requested(c, kind), ", ")

C17_UnmatchedNamesReported ==
    \A c \in SelfHostedPublishCalls :
        \A kind \in TermTypes :
            /\ \A i \in Unmatched(c, kind) : ReportedNotFound(c, kind, i)
            /\ (Unmatched(c, kind) # {} /\ c.recv[1].kind = "http"
                  /\ c.recv[1].status = 201 /\ ReadablePost(c)) => Succeeded(c)

(***************************************************************************)
(* C18.  A term listing on a self-hosted site returns one {id, name} entry *)
(* per record when the answer is a 200 with a well-formed list; on every   *)
(* other outcome (other status, timeout, network error, body that is not   *)
(* JSON, record without id or name) it returns the empty list and reports  *)
(* an error: it never returns a part of the list and never raises.         *)
(* The code returns the records read before a malformed one.               *)
(***************************************************************************)
FetchCalls == {c \in Calls : c.op = "_get_terms_robust"}

WellFormedListing(r) ==
    /\ r.kind = "http"
    /\ r.status = 200
    /\ r.body.json = "array"
    /\ \A i \in DOMAIN r.body.val : {"id", "name"} \subseteq DOMAIN r.body.val[i]

ErrorReported(c) == \E i \in DOMAIN c.notices : c.notices[i].level = "error"

C18_AllOrNothing ==
    \A c \in FetchCalls :
        SelfHosted(c.before) =>
            /\ Returned(c)
            /\ Len(c.recv) = 1
            /\ IF WellFormedListing(c.recv[1])
               THEN c.outcome.value =
                      [i \in DOMAIN c.recv[1].body.val |->
                          [id |-> c.recv[1].body.val[i].id,
                           name |-> c.recv[1].body.val[i].name]]
               ELSE c.outcome.value = <<>> /\ ErrorReported(c)

(***************************************************************************)
(* C19.  On a WordPress.com connection a term listing returns the empty    *)
(* list and a media upload returns a failure that says so, each after      *)
(* telling the caller that the operation is not supported there and        *)
(* without sending any HTTP request.                                       *)
(***************************************************************************)
UploadCalls == {c \in Calls : c.op = "upload_image_to_wordpress"}

ToldUnsupported(c) ==
    \E i \in DOMAIN c.notices :
        /\ c.notices[i].level = "warning"
        /\ \E j \in DOMAIN c.notices[i].text :
               c.notices[i].text[j] \in
                 {" list is not fully supported for WordPress.com via this API configuration.",
                  "WordPress.com image upload is more complex and not fully implemented for direct file upload in this version."}

C19_UnsupportedOnHostedCom ==
    \A c \in FetchCalls \cup UploadCalls :
        HostedCom(c.before) =>
            /\ c.sent = <<>>
            /\ ToldUnsupported(c)
            /\ Returned(c)
            /\ c.op = "_get_terms_robust" => c.outcome.value = <<>>
            /\ c.op = "upload_image_to_wordpress" =>
                   /\ Failed(c)
                   /\ c.outcome.value.error =
                        <<"WordPress.com image upload not fully supported in this version. Try self-hosted WP.">>
            /\ c.after = c.before

C19_Witness ==
    \E c \in UploadCalls :
        /\ HostedCom(c.before)
        /\ c.sent = <<>>
        /\ Failed(c)
        /\ ToldUnsupported(c)

(***************************************************************************)
(* C20.  No operation changes the shared header set: in every state of a   *)
(* configured publisher it is the set the last configure built,            *)
(* Content-Type application/json and the Authorization of the credentials  *)
(* given, and the headers of a publish request are that set, with no       *)
(* Content-Disposition and no Accept header, also after a media upload     *)
(* sent its own Content-Type.                                              *)
(***************************************************************************)
\* the header set of a configuration, from the credentials configure stored
BuiltHeaders(cfg) ==
    [x \in {"Content-Type", "Authorization"} |->
        IF x = "Content-Type" THEN "application/json"
        ELSE IF HostedCom(cfg) THEN "Bearer " \o cfg.password
        ELSE "Basic " \o B64(cfg.username \o ":" \o cfg.password)]

C20_SharedHeadersKept ==
    /\ Configured(wordpress_config) =>
           wordpress_config.headers = BuiltHeaders(wordpress_config)
    /\ \A c \in Calls :
           (Configured(c.before) /\ c.op # "setup_wordpress") =>
               /\ c.after.headers = c.before.headers
               /\ c.op = "publish_to_wordpress" =>
                      /\ Len(c.sent) = 1
                      /\ c.sent[1].headers = BuiltHeaders(c.before)
                      /\ DOMAIN c.sent[1].headers = {"Content-Type", "Authorization"}

C20_Witness ==
    \E c \in UploadCalls :
        /\ Len(c.sent) = 1
        /\ c.sent[1].headers["Content-Type"] = "image/png"
        /\ "Content-Disposition" \in DOMAIN c.sent[1].headers
        /\ Succeeded(c)
        /\ wordpress_config = c.after
        /\ wordpress_config.headers["Content-Type"] = "application/json"
        /\ DOMAIN wordpress_config.headers = {"Content-Type", "Authorization"}

(***************************************************************************)
(* C12.  Within one publish attempt (one press of the publish button with  *)
(* a featured image): when the upload succeeds, answered 201, the media id *)
(* it returned is the featured_media of the payload of the post request    *)
(* sent next; when the upload fails (other status, timeout, unreadable     *)
(* answer, or not supported on WordPress.com) a warning is shown, the post *)
(* request is still sent, its payload has no featured_media field, and     *)
(* the attempt succeeds or fails by the post request alone.                *)
(* Checked under SessionSpec.                                              *)
(***************************************************************************)
AttemptWithImage ==
    /\ Len(calls) = 2
    /\ calls[1].op = "upload_image_to_wordpress"
    /\ calls[2].op = "publish_to_wordpress"

Shown(level, firstPart) ==
    \E i \in DOMAIN shown : shown[i].level = level /\ shown[i].text[1] = firstPart

PublishLog(session) == Get(session, "publish_results", <<>>)

\* the run of the step just taken sent a post request
PostRequestSent(made) ==
    \E i \in DOMAIN made :
        made[i].op = "publish_to_wordpress" /\ Len(made[i].sent) = 1

KeepsLog(old, new) ==
    /\ Len(new) >= Len(old)
    /\ SubSeq(new, 1, Len(old)) = old

C21_OneEntryPerAttempt ==
    [][ /\ KeepsLog(PublishLog(session_state), PublishLog(session_state'))
        /\ Len(PublishLog(session_state')) =
             Len(PublishLog(session_state)) + (IF PostRequestSent(calls') THEN 1 ELSE 0)
      ]_vars

(***************************************************************************)
(* C22.  The cache of categories and tags in the session is filled only    *)
(* for a self-hosted connection after a successful connection test, and is *)
(* never kept for a WordPress.com connection or for a site configured      *)
(* later: after every step a cache that holds terms was fetched in that    *)
(* step, after a successful test of the self-hosted site the step          *)
(* configured, or the step left the stored connection on the same          *)
(* self-hosted site as before.                                             *)
(* The code never clears the cache.  Checked under SessionSpec.            *)
(***************************************************************************)
CacheHeld(session) ==
    \/ Get(session, "wp_all_categories", <<>>) # <<>>
    \/ Get(session, "wp_all_tags", <<>>) # <<>>

\* the run made a successful test of a self-hosted site and then the listings
FetchedAfterTest(made) ==
    /\ Len(made) = 4
    /\ made[2].op = "test_wordpress_connection"
    /\ Succeeded(made[2])
    /\ SelfHosted(made[2].after)
    /\ made[3].op = "_get_terms_robust"
    /\ made[4].op = "_get_terms_robust"

C22_CacheOfTestedSelfHostedSite ==
    [][ CacheHeld(session_state') =>
          \/ /\ FetchedAfterTest(calls')
             /\ session_state'.wp_all_categories = calls'[3].outcome.value
             /\ session_state'.wp_all_tags = calls'[4].outcome.value
             /\ wordpress_config'.site_url = calls'[2].after.site_url
          \/ /\ SelfHosted(wordpress_config)
             /\ SelfHosted(wordpress_config')
             /\ wordpress_config'.site_url = wordpress_config.site_url
             /\ UNCHANGED <<session_state.wp_all_categories, session_state.wp_all_tags>>
      ]_vars

(***************************************************************************)
(* C23.  End to end on a self-hosted site: after configure, a connection   *)
(* test whose probe is answered 200 returns success and sets the mode to   *)
(* Pretty; a publish with status draft that follows, its post request      *)
(* answered 201, returns success with a post id and a url beginning with   *)
(* the configured site URL, the request having gone to                     *)
(* {siteUrl}/wp-json/wp/v2/posts.                                          *)
(* As stated the claim fails on a 200 or a 201 whose body does not read as *)
(* the expected JSON object (C2, C14); the url is the link of the answer.  *)
(***************************************************************************)
\* a test right after configure, its probe answered 200
FirstTestAnswered200(c) ==
    /\ c.op = "test_wordpress_connection"
    /\ SelfHosted(c.before)
    /\ permalinkMode(c.before) = "Unknown"
    /\ Len(c.recv) >= 1
    /\ IsHttp(c.recv[1], 200)

\* a draft publish after such a test, its post request answered 201
DraftPublishAnswered201(c) ==
    /\ c.op = "publish_to_wordpress"
    /\ SelfHosted(c.before)
    /\ permalinkMode(c.before) = "Pretty"
    /\ ~detectedQP
    /\ c.args[3] = "draft"
    /\ Len(c.recv) = 1
    /\ IsHttp(c.recv[1], 201)

PublishedOnSite(c) ==
    /\ Succeeded(c)
    /\ c.outcome.value.post_id = c.recv[1].body.val.id
    /\ c.outcome.value.url = c.recv[1].body.val.link
    /\ c.sent[1].url = c.before.site_url \o "/wp-json/wp/v2/posts"

\* the claim as stated
C23_EndToEnd ==
    \A c \in Calls :
        /\ FirstTestAnswered200(c) =>
               Succeeded(c) /\ permalinkMode(c.after) = "Pretty"
        /\ DraftPublishAnswered201(c) => PublishedOnSite(c)

\* amended: with answers that read as the JSON object of the user and of the post
C23_EndToEndReadable ==
    \A c \in Calls :
        /\ (FirstTestAnswered200(c) /\ c.recv[1].body.json = "object") =>
               Succeeded(c) /\ permalinkMode(c.after) = "Pretty" /\ Len(c.sent) = 1
        /\ (DraftPublishAnswered201(c) /\ ReadablePost(c)) => PublishedOnSite(c)
        /\ (DraftPublishAnswered201(c) /\ ~ReadablePost(c)) => Failed(c)

C23_Witness ==
    \E c \in Calls :
        /\ DraftPublishAnswered201(c)
        /\ c.before.site_url = "https://example.com"
        /\ Succeeded(c)
        /\ c.outcome.value.post_id = 7
        /\ c.outcome.value.url = "https://example.com" \o "/?p=7"
        /\ c.sent[1].url = "https://example.com/wp-json/wp/v2/posts"

(***************************************************************************)
(* C27.  In every reachable session state wp_configured = True implies     *)
(* that the connection the publisher stores is one whose last connection   *)
(* test returned success: no step sets wp_configured to True, or replaces  *)
(* the stored connection and leaves it True, without a successful test of  *)
(* that connection in the step.                                            *)
(* The configuration upload does both without any test.                    *)
(* Checked under SessionSpec.                                              *)
(***************************************************************************)
PublishingEnabled(session) == Truthy(Get(session, "wp_configured", "False"))

\* the run tested the connection it leaves stored, with success
TestedWithSuccess(made, cfg) ==
    \E i \in DOMAIN made :
        /\ made[i].op = "test_wordpress_connection"
        /\ Succeeded(made[i])
        /\ \A k \in {"site_url", "username", "password", "is_wpcom"} :
               made[i].after[k] = cfg[k]
        /\ \A j \in (i + 1)..Len(made) : made[j].op # "setup_wordpress"

SameConnection(old, new) ==
    /\ Configured(old)
    /\ \A k \in {"site_url", "username", "password", "is_wpcom"} : old[k] = new[k]

C27_EnabledOnlyAfterSuccessfulTest ==
    [][ PublishingEnabled(session_state') =>
          \/ TestedWithSuccess(calls', wordpress_config')
          \/ /\ PublishingEnabled(session_state)
             /\ SameConnection(wordpress_config, wordpress_config')
      ]_vars

(***************************************************************************)
(* C29.  After any sequence of configure calls the stored site URL, mode,  *)
(* base API path, credentials and Authorization header derive from the     *)
(* arguments of the last configure call alone (Bearer secret for a         *)
(* wordpress.com URL, Basic base64(username:secret) otherwise); no field   *)
(* of an earlier connection survives, and the stored site URL never ends   *)
(* with a slash.                                                           *)
(***************************************************************************)
SetupCalls == {c \in Calls : c.op = "setup_wordpress"}

\* the site URL, without its trailing slashes, of each URL configure is given
ExpectedSiteUrl(site_url) ==
    CASE site_url = <<"https://", "example.com">> -> "https://example.com"
      [] site_url = <<"https://", "example.com", "/">> -> "https://example.com"
      [] site_url = <<"https://", "MyBlog.WordPress.com", "/">> ->
           "https://MyBlog.WordPress.com"

IsWordPressComUrl(site_url) == site_url = <<"https://", "MyBlog.WordPress.com", "/">>

C29_ConfigFromLastConfigure ==
    \A c \in SetupCalls :
        LET cfg == c.after
            site_url == c.args[1]
            username == c.args[2]
            secret == c.args[3]
        IN  /\ wordpress_config = cfg
            /\ cfg.site_url = ExpectedSiteUrl(site_url)
            /\ cfg.username = username
            /\ cfg.password = secret
            /\ DOMAIN cfg.headers = {"Content-Type", "Authorization"}
            /\ cfg.headers["Content-Type"] = "application/json"
            /\ IF IsWordPressComUrl(site_url)
               THEN /\ DOMAIN cfg = {"site_url", "site_domain", "username", "password",
                                     "is_wpcom", "api_base", "headers"}
                    /\ HostedCom(cfg)
                    /\ cfg.api_base =
                         "https://public-api.wordpress.com/rest/v1.1/sites/MyBlog.WordPress.com"
                    /\ cfg.headers["Authorization"] = "Bearer " \o secret
                    /\ permalinkMode(cfg) = "NotApplicable"
               ELSE /\ DOMAIN cfg = {"site_url", "username", "password", "is_wpcom",
                                     "use_query_params", "headers"}
                    /\ SelfHosted(cfg)
                    /\ cfg.headers["Authorization"] =
                         "Basic " \o B64(username \o ":" \o secret)
                    /\ permalinkMode(cfg) = "Unknown"

C29_Witness ==
    \E c \in SetupCalls :
        /\ HostedCom(c.before)
        /\ c.args[1] = <<"https://", "example.com", "/">>
        /\ wordpress_config.site_url = "https://example.com"
        /\ "api_base" \notin DOMAIN wordpress_config

(***************************************************************************)
(* CompleteAIContentAgent: the text-generation call and setup_gemini.      *)
(*                                                                         *)
(* In this part a text is the sequence of its pieces, each a record: a     *)
(* literal (the first word of a message is a piece of its own, so that     *)
(* startswith("Error:") is read off the first piece), a heading, a file    *)
(* marker, a fenced block, a JSON object, a run of characters.  The agent  *)
(* is the dict of its attributes, kept in st.session_state.agent.          *)
(***************************************************************************)
Lit(s) == [kind |-> "lit", text |-> s]

\* result and not result.startswith("Error:")
TakenAsGenerated(text) == text # <<>> /\ text[1] # Lit("Error:")

\* the API keys typed into the sidebar
ApiKeys == {"key-1", "key-2"}

\* the reply to the prompt "Hello", and the empty reply
HelloTexts == { <<Lit("Hello!"), Lit(" How can I help you today?")>>, <<>> }

\* what the request to the generation endpoint ends with; the bodies of its 200
\* answers are a JSON object with the generated text, one without candidates,
\* one whose part has no "text", and a body that is not JSON
GeminiResponses(texts) ==
    { [kind |-> "http", status |-> 200, body |-> b] :
        b \in { [text |-> "{candidates}", json |-> "object", candidates |-> "text",
                 generated |-> t] : t \in texts }
              \cup { [text |-> "{}", json |-> "object", candidates |-> "none"],
                     [text |-> "{candidates}", json |-> "object", candidates |-> "no text"] }
              \cup InvalidBodies }
    \cup { [kind |-> "http", status |-> s, body |-> ErrorBody] : s \in {400, 500} }
    \cup { [kind |-> "neterr"] }

\* requests.post(api_url, headers=..., data=...): no timeout is passed
GeminiRequest(prompt, api_key) ==
    [method |-> "POST",
     url |-> "https://generativelanguage.googleapis.com/v1beta/models/gemini-2.0-flash:generateContent?key="
             \o api_key,
     headers |-> [x \in {"Content-Type"} |-> "application/json"],
     payload |-> [contents |-> <<[role |-> "user", parts |-> <<[text |-> prompt]>>]>>]]

\* f"Error making API request: {e}"
RequestErrorText(exc) == <<Lit("Error"), Lit(" making API request: "), Lit("str(" \o exc \o ")")>>

\* the text call_gemini_api returns for what the request ended with
GeminiResultText(r) ==
    IF r.kind # "http"
    THEN RequestErrorText("requests.exceptions.ConnectionError")
    ELSE IF r.status >= 400 /\ r.status < 600
    THEN RequestErrorText("requests.exceptions.HTTPError")
    ELSE IF r.body.json = "invalid"
    THEN IF r.body.raises = "requests.JSONDecodeError"
         THEN RequestErrorText("requests.exceptions.JSONDecodeError")
         ELSE <<Lit("Error"), Lit(" decoding JSON response: "), Lit(r.body.text)>>
    ELSE IF r.body.candidates = "none"
    THEN <<Lit("Error:"), Lit(" No content generated. API Response: "), Lit(r.body.text)>>
    ELSE IF r.body.candidates = "no text"
    THEN <<Lit("An"), Lit(" unexpected error occurred: "), Lit("str(KeyError('text'))")>>
    ELSE r.body.generated

call_gemini_api(agent, prompt, api_key, r) ==
    Call("call_gemini_api", <<prompt, api_key>>, agent, agent,
         <<GeminiRequest(prompt, api_key)>>, <<r>>, Return(GeminiResultText(r)), <<>>)

setup_gemini(agent, api_key, r) ==
    LET op == "setup_gemini"
        after == Put(agent, "gemini_api_key", api_key)
        test == call_gemini_api(after, <<Lit("Hello")>>, api_key, r)
        test_result == test.outcome.value
    IN  IF TakenAsGenerated(test_result)
        THEN Call(op, <<api_key>>, agent, after, test.sent, test.recv, Return("True"), <<>>)
        ELSE Call(op, <<api_key>>, agent, after, test.sent, test.recv, Return("False"),
                  <<Notice("error", <<Lit("Gemini AI test failed: ")>> \o test_result)>>)

(***************************************************************************)
(* CompleteAIContentAgent: articles and projects.                          *)
(***************************************************************************)
\* a line "FILE: name" of a generated project
FileMarker(name) == [kind |-> "file", name |-> name]

\* a block "```lang" ... "```" of a generated project; closed is false when the
\* closing fence is missing
Fence(lang, body, closed) == [kind |-> "fence", lang |-> lang, body |-> body, closed |-> closed]

\* an Optional[Dict] result that is None; a dict is the record of type "dict"
\* with its items
NoneValue == [type |-> "NoneType"]

\* the texts generated for an article; a line "# ..." is given by its words and
\* punctuation
ArticleTexts ==
    { <<[kind |-> "h1", words |-> <<"Hello", ",", " ", "World", "!">>],
        Lit("\n\nBody of the article.")>>,
      <<Lit("Body"), Lit(" without a heading.")>>,
      <<>> }

\* the texts generated for a project: a file in a fenced block, a file without
\* fences, a file whose fence is not closed, and two texts without any file
ProjectTexts ==
    { <<FileMarker("main.py"), Fence("python", "print('hi')", TRUE),
        FileMarker("README.md"), Fence("", "# Demo", TRUE)>>,
      <<FileMarker("main.py"), Lit("print('hi')")>>,
      <<FileMarker("main.py"), Fence("python", "print('hi')", FALSE)>>,
      <<Lit("Here"), Lit(" is an overview of the project.")>>,
      <<Fence("python", "print('hi')", TRUE)>>,
      <<>> }

\* the first H1 line without its punctuation (re.sub(r'[^\w\s]', '', ...)), or
\* "Generated Content"
RECURSIVE extract_title_from_content(_)
extract_title_from_content(content) ==
    IF content = <<>> THEN "Generated Content"
    ELSE IF Head(content).kind = "h1"
    THEN Join(SelectSeq(Head(content).words, LAMBDA w : w \notin {",", "!", ".", ":", "?"}))
    ELSE extract_title_from_content(Tail(content))

generate_enhanced_content(agent, topic, content_type, r) ==
    LET op == "generate_enhanced_content"
        args == <<topic, content_type>>
        prompt == <<Lit("Create"), Lit(" a comprehensive and engaging "), Lit(content_type),
                    Lit(" about "), [kind |-> "chars", chars |-> topic]>>
    IN  IF "gemini_api_key" \notin DOMAIN agent
        THEN Call(op, args, agent, agent, <<>>, <<>>,
                  Return(<<Lit("Error:"), Lit(" Gemini AI API key not configured")>>), <<>>)
        ELSE LET made == call_gemini_api(agent, prompt, agent["gemini_api_key"], r)
             IN  Call(op, args, agent, agent, made.sent, made.recv,
                      Return(made.outcome.value), <<>>)

\* the files found by the strict pattern: a FILE line directly followed by a
\* closed fenced block
RECURSIVE StrictFiles(_)
StrictFiles(content) ==
    IF Len(content) < 2 THEN EmptyDict
    ELSE IF /\ content[1].kind = "file"
            /\ content[2].kind = "fence"
            /\ content[2].closed
    THEN LET rest == StrictFiles(Tail(Tail(content)))
         IN  IF content[1].name \in DOMAIN rest THEN rest
             ELSE Put(rest, content[1].name, content[2].body)
    ELSE StrictFiles(Tail(content))

\* the pieces up to the next FILE line
RECURSIVE UpToNextFile(_)
UpToNextFile(content) ==
    IF content = <<>> \/ Head(content).kind = "file" THEN <<>>
    ELSE <<Head(content)>> \o UpToNextFile(Tail(content))

\* the text kept for a file by the simpler parsing: the fence lines of a block
\* at its start are dropped
RECURSIVE LooseText(_)
LooseText(pieces) ==
    IF pieces = <<>> THEN ""
    ELSE (IF Head(pieces).kind = "fence" THEN Head(pieces).body
          ELSE IF Head(pieces).kind = "lit" THEN Head(pieces).text
          ELSE "")
         \o LooseText(Tail(pieces))

\* the files found by splitting the text at its FILE lines
RECURSIVE LooseFiles(_)
LooseFiles(content) ==
    IF content = <<>> THEN EmptyDict
    ELSE IF Head(content).kind = "file"
    THEN LET rest == LooseFiles(Tail(content))
         IN  IF Head(content).name \in DOMAIN rest THEN rest
             ELSE Put(rest, Head(content).name, LooseText(UpToNextFile(Tail(content))))
    ELSE LooseFiles(Tail(content))

PlaceholderFiles ==
    [x \in {"README.md", "main.py", "requirements.txt"} |->
        CASE x = "README.md" ->
               "# AI Generated Project\n\nProject generated by AI Content Agent Pro"
          [] x = "main.py" -> "# Main project file\nprint('Hello, World!')"
          [] OTHER -> "# Add your dependencies here"]

\* the files returned and the notices shown
parse_project_files(content) ==
    \* (the warning names the three backquotes of a fence; they are written "fence" here)
    LET strict == StrictFiles(content)
        loose == LooseFiles(content)
        warned == <<Notice("warning",
                           <<Lit("Could not parse files using strict FILE: and fence markers. Attempting simpler parsing.")>>)>>
    IN  IF DOMAIN strict # {}
        THEN [files |-> strict, notices |-> <<>>]
        ELSE IF DOMAIN loose # {}
        THEN [files |-> loose, notices |-> warned]
        ELSE [files |-> PlaceholderFiles,
              notices |-> warned \o
                  <<Notice("error",
                           <<Lit("Failed to parse any files from AI response. Generated minimal placeholder files.")>>)>>]

generate_project_files(agent, project_name, project_type, r) ==
    LET op == "generate_project_files"
        args == <<project_name, project_type>>
        prompt == <<Lit("Create"), Lit(" a complete "), Lit(project_type), Lit(" called "),
                    Lit(project_name)>>
    IN  IF "gemini_api_key" \notin DOMAIN agent
        THEN Call(op, args, agent, agent, <<>>, <<>>, Return(NoneValue), <<>>)
        ELSE LET made == call_gemini_api(agent, prompt, agent["gemini_api_key"], r)
                 result == made.outcome.value
                 parsed == parse_project_files(result)
             IN  IF TakenAsGenerated(result)
                 THEN Call(op, args, agent, agent, made.sent, made.recv,
                           Return([type |-> "dict", items |-> parsed.files]), parsed.notices)
                 ELSE Call(op, args, agent, agent, made.sent, made.recv, Return(NoneValue),
                           <<Notice("error", <<Lit("Project generation failed: ")>> \o result)>>)

\* r is what requests.get(image_url, timeout=10) ends with
generate_image_with_ai(agent, prompt, r) ==
    LET op == "generate_image_with_ai"
        req == HttpGet("https://via.placeholder.com/600x400?text=AI+Generated+Image",
                       EmptyDict, 10)
        info == Notice("info", <<Lit("Generating image for prompt: "), Lit(prompt)>>)
        exc == IF r.kind = "timeout" THEN "requests.exceptions.Timeout"
               ELSE IF r.kind = "neterr" THEN "requests.exceptions.ConnectionError"
               ELSE "requests.exceptions.HTTPError"
    IN  IF r.kind = "http" /\ ~(r.status >= 400 /\ r.status < 600)
        THEN Call(op, <<prompt>>, agent, agent, <<req>>, <<r>>, Return(r.content), <<info>>)
        ELSE Call(op, <<prompt>>, agent, agent, <<req>>, <<r>>, Return("None"),
                  <<info, Notice("error", <<Lit("Could not fetch placeholder image: "),
                                            Lit("str(" \o exc \o ")")>>)>>)

(***************************************************************************)
(* CompleteAIContentAgent.generate_seo_metadata.  The strings it measures  *)
(* and cuts (the topic and the fields of the JSON object) are sequences of *)
(* characters.                                                             *)
(***************************************************************************)
UpperCase ==
    <<"A", "B", "C", "D", "E", "F", "G", "H", "I", "J", "K", "L", "M", "N", "O", "P", "Q",
      "R", "S", "T", "U", "V", "W", "X", "Y", "Z">>

LowerCase ==
    <<"a", "b", "c", "d", "e", "f", "g", "h", "i", "j", "k", "l", "m", "n", "o", "p", "q",
      "r", "s", "t", "u", "v", "w", "x", "y", "z">>

\* s.lower()
LowerChars(s) ==
    [i \in DOMAIN s |->
        IF \E j \in DOMAIN UpperCase : UpperCase[j] = s[i]
        THEN LowerCase[CHOOSE j \in DOMAIN UpperCase : UpperCase[j] = s[i]]
        ELSE s[i]]

\* the characters \s matches and strip() removes
IsSpace(c) == c \in {" ", "\n", "\t"}

\* the characters \w matches
IsWordChar(c) ==
    \/ \E i \in DOMAIN UpperCase : c \in {UpperCase[i], LowerCase[i]}
    \/ c \in {"0", "1", "2", "3", "4", "5", "6", "7", "8", "9", "_"}

\* s[:n]
Take(s, n) == SubSeq(s, 1, IF Len(s) < n THEN Len(s) ELSE n)

\* s.replace(old, new) for single characters
ReplaceChar(s, old, new) == [i \in DOMAIN s |-> IF s[i] = old THEN new ELSE s[i]]

\* s.replace(old, '')
RemoveChar(s, old) == SelectSeq(s, LAMBDA c : c # old)

\* s.strip(): the characters from the first to the last that is no space
Strip(s) ==
    LET kept == {i \in DOMAIN s : ~IsSpace(s[i])}
    IN  IF kept = {} THEN <<>>
        ELSE SubSeq(s, CHOOSE i \in kept : \A j \in kept : i <= j,
                    CHOOSE i \in kept : \A j \in kept : j <= i)

\* re.sub(r'[^\w\s-]', '', s)
SlugChars(s) == SelectSeq(s, LAMBDA c : IsWordChar(c) \/ IsSpace(c) \/ c = "-")

\* the characters of f"Learn about {topic}"
LearnAbout(topic) ==
    <<"L", "e", "a", "r", "n", " ", "a", "b", "o", "u", "t", " ">>
    \o topic

\* the characters of f"Learn about {topic} in this comprehensive guide."
LearnAboutGuide(topic) ==
    LearnAbout(topic) \o
        <<" ", "i", "n", " ", "t", "h", "i", "s", " ", "c", "o", "m", "p", "r", "e", "h",
          "e", "n", "s", "i", "v", "e", " ", "g", "u", "i", "d", "e", ".">>

\* the record returned when the metadata cannot be generated
FallbackMetadata(topic) ==
    [x \in {"title", "description", "keywords", "slug"} |->
        CASE x = "title" -> Take(topic, 60)
          [] x = "description" -> LearnAboutGuide(topic)
          [] x = "keywords" -> <<LowerChars(topic)>>
          [] OTHER -> Take(RemoveChar(RemoveChar(ReplaceChar(LowerChars(topic), " ", "-"), ","),
                                      "."), 50)]

\* the longest topic typed into the form
MaxTopicLen == 120

\* n characters that repeat a pattern
Fill(pattern, n) == [i \in 1..n |-> pattern[((i - 1) % Len(pattern)) + 1]]

\* the topics of the articles: a short one, one of the length of a title, one
\* character more, and the longest
Topics ==
    { Fill(<<"A", "I", ",", " ", "N", "o", "w", ".", " ", "x">>, n) :
        n \in {5, 60, 61, MaxTopicLen} }

\* JSON values are records with their type: a string with its characters, a
\* list with its items, a number
JStr(cs) == [type |-> "str", chars |-> cs]

\* an object whose fields are all longer than the metadata may be
LongSeoObject ==
    [x \in {"title", "description", "keywords", "slug"} |->
        CASE x = "title" -> JStr(Fill(<<" ", "T", "o", "p", " ", "T", "i", "p", "s", " ">>, 70))
          [] x = "description" ->
               JStr(Fill(<<"A", " ", "g", "u", "i", "d", "e", ".", "\n", " ">>, 170))
          [] x = "keywords" ->
               [type |-> "list",
                items |-> <<JStr(<<" ", "A", "I", " ">>), JStr(<<" ", " ">>),
                            JStr(<<"W", "P">>), JStr(<<"s", "e", "o">>),
                            JStr(<<"b", "l", "o", "g">>), JStr(<<"c", "m", "s">>),
                            JStr(<<"a", "p", "i">>)>>]
          [] OTHER -> JStr(Fill(<<"M", "y", " ", "S", "l", "u", "g", "!", " ", "-">>, 70))]

\* the objects generated: the long one, the long one with one field missing or
\* of the wrong type, and the empty one
SeoObjects ==
    {LongSeoObject, EmptyDict}
    \cup { [x \in (DOMAIN LongSeoObject) \ {k} |-> LongSeoObject[x]] :
             k \in DOMAIN LongSeoObject }
    \cup { Put(LongSeoObject, k, [type |-> "int"]) : k \in DOMAIN LongSeoObject }
    \cup { Put(LongSeoObject, "keywords", JStr(<<"A", "I", " ", "w", "p", ",", "s", "e", "o">>)),
           Put(LongSeoObject, "keywords",
               [type |-> "list", items |-> <<JStr(<<"A", "I">>), [type |-> "int"]>>]) }

\* the texts generated for the metadata; a JSON object in a text, from its
\* first brace to its last, is a piece, valid being false when json.loads
\* rejects it
SeoTexts ==
    { <<Lit("Here"), Lit(" is the metadata:\n"), [kind |-> "json", valid |-> TRUE, obj |-> o]>> :
        o \in SeoObjects }
    \cup { <<[kind |-> "json", valid |-> FALSE, obj |-> EmptyDict]>>,
           <<Lit("Sorry"), Lit(", no metadata this time.")>>, <<>> }

\* the entries of keywords as the comprehension sees them: the items of a
\* list, the characters of a string
KeywordItems(obj) ==
    LET v == Get(obj, "keywords", [type |-> "list", items |-> <<>>])
    IN  IF v.type = "str" THEN [i \in DOMAIN v.chars |-> JStr(<<v.chars[i]>>)] ELSE v.items

\* a field of the object is of a type its processing raises on
SeoRaises(obj, topic) ==
    \/ Get(obj, "title", JStr(topic)).type # "str"
    \/ Get(obj, "description", JStr(topic)).type # "str"
    \/ "keywords" \in DOMAIN obj /\ obj["keywords"].type \notin {"str", "list"}
    \/ \E i \in DOMAIN KeywordItems(obj) : KeywordItems(obj)[i].type # "str"
    \/ Get(obj, "slug", JStr(topic)).type # "str"

\* the object with its four fields cut to their lengths
ParsedMetadata(obj, topic) ==
    LET kept == SelectSeq(KeywordItems(obj), LAMBDA k : Strip(k.chars) # <<>>)
    IN  [x \in (DOMAIN obj) \cup {"title", "description", "keywords", "slug"} |->
            CASE x = "title" -> Strip(Take(Get(obj, "title", JStr(topic)).chars, 60))
              [] x = "description" ->
                   Strip(Take(ReplaceChar(Get(obj, "description",
                                              JStr(LearnAbout(topic))).chars,
                                          "\n", " "), 160))
              [] x = "keywords" ->
                   Take([i \in DOMAIN kept |-> LowerChars(Strip(kept[i].chars))], 5)
              [] x = "slug" ->
                   Take(Strip(ReplaceChar(SlugChars(LowerChars(Get(obj, "slug",
                                                                   JStr(topic)).chars)),
                                          " ", "-")), 60)
              [] OTHER -> obj[x]]

generate_seo_metadata(agent, content, topic, r) ==
    LET op == "generate_seo_metadata"
        args == <<content, topic>>
        prompt == <<Lit("Based"), Lit(" on this content about "),
                    [kind |-> "chars", chars |-> topic], Lit("Content Preview: ")>> \o content
        failed == Notice("warning",
                         <<Lit("SEO generation failed or returned invalid format. Using fallback metadata.")>>)
    IN  IF "gemini_api_key" \notin DOMAIN agent
        THEN Call(op, args, agent, agent, <<>>, <<>>, Return(FallbackMetadata(topic)),
                  <<Notice("warning",
                           <<Lit("Gemini AI API key not configured for SEO generation. Using fallback metadata.")>>)>>)
        ELSE LET made == call_gemini_api(agent, prompt, agent["gemini_api_key"], r)
                 response == made.outcome.value
                 \* re.search(r'\{.*\}', response, re.DOTALL)
                 found == SelectSeq(response, LAMBDA p : p.kind = "json")
                 done(value, notices) ==
                     Call(op, args, agent, agent, made.sent, made.recv, Return(value), notices)
             IN  IF TakenAsGenerated(response) /\ found # <<>>
                 THEN IF ~found[1].valid
                      THEN done(FallbackMetadata(topic),
                                <<Notice("warning",
                                         <<Lit("Could not parse SEO JSON from Gemini. Raw response: ")>>
                                         \o response),
                                  failed>>)
                      ELSE IF SeoRaises(found[1].obj, topic)
                      THEN done(FallbackMetadata(topic),
                                <<Notice("error", <<Lit("Error generating SEO metadata: "),
                                                   Lit("str(TypeError)")>>)>>)
                      ELSE done(ParsedMetadata(found[1].obj, topic), <<>>)
                 ELSE done(FallbackMetadata(topic), <<failed>>)

(***************************************************************************)
(* The agent as a state machine: every step is one call of a method of     *)
(* CompleteAIContentAgent, made in any order.                              *)
(***************************************************************************)
\* the agent as __init__ leaves it: no gemini_api_key attribute
AgentInit ==
    /\ wordpress_config = EmptyDict
    /\ session_state = Put(EmptyDict, "agent", EmptyDict)
    /\ calls = <<>>
    /\ shown = <<>>
    /\ detectedQP = FALSE

AgentStep(call) ==
    /\ session_state' = Put(session_state, "agent", call.after)
    /\ calls' = <<call>>
    /\ shown' = call.notices
    /\ UNCHANGED <<wordpress_config, detectedQP>>

SetupGemini ==
    \E api_key \in ApiKeys, r \in GeminiResponses(HelloTexts) :
        AgentStep(setup_gemini(session_state["agent"], api_key, r))

GenerateContent ==
    \E topic \in Topics, content_type \in {"Blog Post"}, r \in GeminiResponses(ArticleTexts) :
        AgentStep(generate_enhanced_content(session_state["agent"], topic, content_type, r))

GenerateProject ==
    \E project_name \in {"Simple Chatbot"}, project_type \in {"Python Project"},
       r \in GeminiResponses(ProjectTexts) :
        AgentStep(generate_project_files(session_state["agent"], project_name,
                                         project_type, r))

GenerateSeo ==
    \E content \in ArticleTexts \ {<<>>}, topic \in Topics, r \in GeminiResponses(SeoTexts) :
        AgentStep(generate_seo_metadata(session_state["agent"], content, topic, r))

GenerateImage ==
    \E prompt \in {"a futuristic city at sunset"},
       r \in { [kind |-> "http", status |-> 200, content |-> "png-bytes"],
               [kind |-> "http", status |-> 404, content |-> "<html>"],
               [kind |-> "timeout"], [kind |-> "neterr"] } :
        AgentStep(generate_image_with_ai(session_state["agent"], prompt, r))

AgentNext == SetupGemini \/ GenerateContent \/ GenerateProject \/ GenerateSeo \/ GenerateImage

AgentSpec == AgentInit /\ [][AgentNext]_vars

(***************************************************************************)
(* The creation wizard of main(): every step is one run of the script, in  *)
(* which the sidebar sets up the key typed into it and the first tab       *)
(* handles the button pressed, if any.                                     *)
(***************************************************************************)
\* the session value read under a flag key
Flag(session, key) == Truthy(Get(session, key, "False"))

\* the sidebar: the agent is created on the first run, and the key in the
\* input is set up unless it is the key that was set up with success
SidebarRun(cfg0, session0, api_key, rk) ==
    LET created == IF "agent" \in DOMAIN session0 THEN session0
                   ELSE Put(session0, "agent", EmptyDict)
        session == Put(created, "gemini_api_key_input", api_key)
    IN  IF api_key = ""
        THEN Run(cfg0, Put(Put(session, "gemini_configured", "False"),
                           "gemini_configured_key", "None"),
                 <<>>, <<Notice("info", <<Lit("Enter your Gemini AI API key to get started")>>)>>)
        ELSE IF \/ "gemini_configured" \notin DOMAIN session
                \/ session["gemini_configured_key"] # api_key
        THEN LET made == setup_gemini(session["agent"], api_key, rk)
                 kept == Put(session, "agent", made.after)
             IN  IF made.outcome.value = "True"
                 THEN Run(cfg0, Put(Put(kept, "gemini_configured", "True"),
                                    "gemini_configured_key", api_key),
                          <<made>>,
                          made.notices \o <<Notice("success", <<Lit("Gemini AI Connected")>>)>>)
                 ELSE Run(cfg0, kept, <<made>>,
                          made.notices
                          \o <<Notice("error", <<Lit("Failed to connect to Gemini AI")>>)>>)
        ELSE Run(cfg0, session, <<>>, <<Notice("success", <<Lit("Gemini AI Connected")>>)>>)

\* the run ends at the head of the first tab while generation is not enabled
NotConfiguredRun(side) ==
    Run(side.config, side.session, side.calls,
        side.shown
        \o <<Notice("warning", <<Lit("Please configure Gemini AI in the sidebar to continue.")>>)>>)

\* the generate button, for an article
GenerateArticleRun(cfg0, session0, topic, content_type, rk, r1, r2) ==
    LET side == SidebarRun(cfg0, session0, session0["gemini_api_key_input"], rk)
        agent == side.session["agent"]
        made == generate_enhanced_content(agent, topic, content_type, r1)
        content == made.outcome.value
        seo == generate_seo_metadata(agent, content, topic, r2)
        stored ==
            [x \in (DOMAIN side.session)
                   \cup {"generated_content", "content_title", "content_topic", "content_type",
                         "seo_metadata", "generation_time", "is_project"} |->
                CASE x = "generated_content" -> content
                  [] x = "content_title" -> extract_title_from_content(content)
                  [] x = "content_topic" -> topic
                  [] x = "content_type" -> content_type
                  [] x = "seo_metadata" -> seo.outcome.value
                  [] x = "generation_time" -> "now"
                  [] x = "is_project" -> "False"
                  [] OTHER -> side.session[x]]
    IN  IF ~Flag(side.session, "gemini_configured")
        THEN NotConfiguredRun(side)
        ELSE IF TakenAsGenerated(content)
        THEN Run(cfg0, stored, side.calls \o <<made, seo>>,
                 side.shown \o made.notices \o seo.notices
                 \o <<Notice("success", <<Lit("Content Generated Successfully!")>>)>>)
        ELSE Run(cfg0, side.session, side.calls \o <<made>>,
                 side.shown \o made.notices
                 \o <<Notice("error", <<Lit("Content generation failed: ")>> \o content)>>)

\* the generate button, for a project
GenerateProjectRun(cfg0, session0, project_name, project_type, rk, r) ==
    LET side == SidebarRun(cfg0, session0, session0["gemini_api_key_input"], rk)
        made == generate_project_files(side.session["agent"], project_name, project_type, r)
        project_files == made.outcome.value
        stored ==
            [x \in (DOMAIN side.session)
                   \cup {"generated_project", "project_name", "project_type",
                         "project_description", "generation_time", "is_project"} |->
                CASE x = "generated_project" -> project_files.items
                  [] x = "project_name" -> project_name
                  [] x = "project_type" -> project_type
                  [] x = "project_description" -> ""
                  [] x = "generation_time" -> "now"
                  [] x = "is_project" -> "True"
                  [] OTHER -> side.session[x]]
    IN  IF ~Flag(side.session, "gemini_configured")
        THEN NotConfiguredRun(side)
        ELSE IF project_files.type = "dict" /\ DOMAIN project_files.items # {}
        THEN Run(cfg0, stored, side.calls \o <<made>>,
                 side.shown \o made.notices
                 \o <<Notice("success", <<Lit("Project Generated Successfully!")>>)>>)
        ELSE Run(cfg0, side.session, side.calls \o <<made>>,
                 side.shown \o made.notices
                 \o <<Notice("error", <<Lit("Failed to generate project files.")>>)>>)

\* what the requests of the wizard end with: the texts, and one answer of each
\* kind of failure
WizardResponses(texts) ==
    {r \in GeminiResponses(texts) :
        r.kind = "http" =>
            /\ r.status # 500
            /\ (r.status = 200 /\ r.body.json = "invalid" => r.body.raises = "json.JSONDecodeError")}

\* the answers to the test of a key: drawn only when the sidebar tests the key
KeyTests(session, api_key) ==
    IF /\ api_key # ""
       /\ \/ "gemini_configured" \notin DOMAIN session
          \/ session["gemini_configured_key"] # api_key
    THEN WizardResponses(HelloTexts)
    ELSE {[kind |-> "neterr"]}

\* the answer to the metadata request of the wizard, made only for a text
\* taken as generated: the long object
SeoAfter(r1) ==
    IF TakenAsGenerated(GeminiResultText(r1))
    THEN {r \in GeminiResponses({<<Lit("Here"), Lit(" is the metadata:\n"),
                                   [kind |-> "json", valid |-> TRUE, obj |-> LongSeoObject]>>}) :
             r.kind = "http" /\ r.status = 200 /\ r.body.json = "object"
             /\ r.body.candidates = "text"}
    ELSE {[kind |-> "neterr"]}

WizardHandle(run) ==
    /\ session_state' = run.session
    /\ calls' = run.calls
    /\ shown' = run.shown
    /\ UNCHANGED <<wordpress_config, detectedQP>>

\* a run in which no button is pressed
EnterKey ==
    \E api_key \in ApiKeys \cup {""} :
      \E rk \in KeyTests(session_state, api_key) :
        LET side == SidebarRun(wordpress_config, session_state, api_key, rk)
        IN  WizardHandle(IF Flag(side.session, "gemini_configured") THEN side
                         ELSE NotConfiguredRun(side))

\* the generate button is on the page only while gemini_configured is set and true
GenerateArticleButton ==
    /\ Flag(session_state, "gemini_configured")
    /\ \E topic \in {t \in Topics : Len(t) = 5}, content_type \in {"Blog Post"},
          rk \in KeyTests(session_state, session_state["gemini_api_key_input"]),
          r1 \in WizardResponses({t \in ArticleTexts : t = <<>> \/ t[1].kind = "h1"}) :
        \E r2 \in SeoAfter(r1) :
          WizardHandle(GenerateArticleRun(wordpress_config, session_state, topic,
                                          content_type, rk, r1, r2))

GenerateProjectButton ==
    /\ Flag(session_state, "gemini_configured")
    /\ \E project_name \in {"Simple Chatbot"}, project_type \in {"Python Project"},
          rk \in KeyTests(session_state, session_state["gemini_api_key_input"]),
          r \in WizardResponses({t \in ProjectTexts :
                                    \/ t = <<>>
                                    \/ t[1].kind = "lit"
                                    \/ t[1].kind = "file" /\ (t[2].kind = "lit" \/ t[2].closed)}) :
        WizardHandle(GenerateProjectRun(wordpress_config, session_state, project_name,
                                        project_type, rk, r))

WizardNext == EnterKey \/ GenerateArticleButton \/ GenerateProjectButton

\* the session is empty before the first run
WizardSpec == SessionInit /\ [][WizardNext]_vars

(***************************************************************************)
(* C24.  Failed outcomes of the text-generation call.                      *)
(***************************************************************************)
\* the request did not end with a generated text: a transport error, a status
\* outside 2xx, a body that is not JSON, or one without candidates[0].content.parts[0].text
GenerationFailed(r) ==
    \/ r.kind # "http"
    \/ r.status < 200
    \/ r.status >= 300
    \/ r.body.json # "object"
    \/ r.body.candidates # "text"

\* the calls of the last step, in their order, of a method whose request to the
\* generation endpoint failed
FailedGenerations(op) ==
    {i \in DOMAIN calls :
        /\ calls[i].op = op
        /\ calls[i].recv # <<>>
        /\ GenerationFailed(calls[i].recv[1])}

\* C24: every failed outcome of the text-generation call (non-2xx status,
\* transport error, undecodable body, response without the text) is a failure
\* for every caller: setup_gemini returns False, generate_project_files returns
\* no files, and the article flow does not store the returned text as the
\* generated content.
C24_FailedGenerationIsFailure ==
    /\ \A i \in FailedGenerations("setup_gemini") : calls[i].outcome.value = "False"
    /\ \A i \in FailedGenerations("generate_project_files") :
           calls[i].outcome.value = NoneValue
    /\ \A i \in FailedGenerations("generate_enhanced_content") :
           ~ /\ "generated_content" \in DOMAIN session_state
             /\ session_state["generated_content"] = calls[i].outcome.value

(***************************************************************************)
(* C25.  A project response without files.                                 *)
(***************************************************************************)
\* neither the strict pattern nor the split at the FILE lines finds a file
NoFileBlock(text) == DOMAIN StrictFiles(text) = {} /\ DOMAIN LooseFiles(text) = {}

\* the project generations of the last step whose request was answered with a
\* generated text that holds no file
UnparsedProjects ==
    {i \in DOMAIN calls :
        /\ calls[i].op = "generate_project_files"
        /\ calls[i].recv # <<>>
        /\ ~GenerationFailed(calls[i].recv[1])
        /\ NoFileBlock(GeminiResultText(calls[i].recv[1]))}

\* the run showed a notice of the level that begins with the text
ShownLit(level, first) ==
    \E j \in DOMAIN shown : shown[j].level = level /\ shown[j].text[1] = Lit(first)

\* C25: when no file block can be extracted from the response to a project
\* generation, the generation ends in a failure (no files are returned, an
\* error is shown) and the run does not report a successfully generated project.
C25_NoFilesIsFailure ==
    \A i \in UnparsedProjects :
        /\ calls[i].outcome.value = NoneValue
        /\ \E j \in DOMAIN shown : shown[j].level = "error"
        /\ ~ShownLit("success", "Project Generated Successfully!")

(***************************************************************************)
(* C26.  Explicit timeouts.                                                *)
(***************************************************************************)
\* the request was given a timeout: 10 seconds for a read, 30 for a write
ExplicitTimeout(req) ==
    /\ "timeout" \in DOMAIN req
    /\ req.timeout = IF req.method = "GET" THEN 10 ELSE 30

\* C26: every request of every call (the probes, the term listings, the media
\* upload, the post creation, the fetch of the placeholder image and the
\* text-generation call) is sent with an explicit timeout, 10 seconds for a read
\* or probe and 30 seconds for a write or upload.
C26_EveryRequestHasTimeout ==
    \A c \in Calls : \A i \in DOMAIN c.sent : ExplicitTimeout(c.sent[i])

(***************************************************************************)
(* C28.  Generation is enabled for the key that was set up with success.   *)
(***************************************************************************)
\* st.session_state.gemini_configured is set and true
GenerationEnabled(session) == Flag(session, "gemini_configured")

\* the key the agent holds, "None" while it has none
AgentKey(session) == Get(Get(session, "agent", EmptyDict), "gemini_api_key", "None")

\* a setup_gemini among the calls returned the value
SetupReturned(made, value) ==
    \E i \in DOMAIN made : made[i].op = "setup_gemini" /\ made[i].outcome.value = value

\* a setup_gemini among the calls returned True for the key
SetUpWithSuccess(made, api_key) ==
    \E i \in DOMAIN made :
        /\ made[i].op = "setup_gemini"
        /\ made[i].outcome.value = "True"
        /\ made[i].args[1] = api_key

\* C28: generation is enabled (gemini_configured is true) only while the key
\* the agent holds is the key whose setup last succeeded: after every run in
\* which generation is enabled, either the run set up the agent's key with
\* success, or generation was enabled before, the agent holds the same key and
\* the run set up no key; a run in which the setup of a key fails leaves
\* generation disabled.
C28_EnabledForKeySetUpWithSuccess ==
    [][GenerationEnabled(session_state') =>
          /\ ~SetupReturned(calls', "False")
          /\ \/ SetUpWithSuccess(calls', AgentKey(session_state'))
             \/ /\ GenerationEnabled(session_state)
                /\ AgentKey(session_state') = AgentKey(session_state)
                /\ ~SetupReturned(calls', "True")]_vars

(***************************************************************************)
(* C30.  The lengths of the SEO metadata.                                  *)
(***************************************************************************)
SeoCalls == {c \in Calls : c.op = "generate_seo_metadata"}

\* a record with the four fields, each within its length
WithinLimits(metadata) ==
    /\ {"title", "description", "keywords", "slug"} \subseteq DOMAIN metadata
    /\ Len(metadata["title"]) <= 60
    /\ Len(metadata["description"]) <= 160
    /\ Len(metadata["keywords"]) <= 5
    /\ Len(metadata["slug"]) <= 60

\* C30: whatever the generation call returns (no key, an error text, a text
\* without JSON, invalid JSON, an object with missing or wrongly typed fields)
\* and whatever the length of the topic, generate_seo_metadata returns a record
\* with a title of at most 60 characters, a description of at most 160, at most
\* 5 keywords and a slug of at most 60 characters.
C30_MetadataWithinLimits ==
    \A c \in SeoCalls : Returned(c) /\ WithinLimits(c.outcome.value)
====
